---- MODULE Spec2Model ----
(***************************************************************************)
(* Price-alert and free-games notification pipeline of SteamMCP.           *)
(*                                                                         *)
(* Two deployments exist in the repository and share no table: the Steam   *)
(* tracker (steam_tracker_mcp.py: steam_users, steam_games, price_alerts)  *)
(* and the Epic side (enhanced_mcp_server.py tools, epic_games_monitor.py  *)
(* jobs: epic_games_users, epic_price_alerts, epic_free_games_alerts,      *)
(* epic_daily_deals_subscriptions).  On the Epic side the price alerts and *)
(* the free-games notifier share no row but the user registry.  The        *)
(* variable platform fixes which pipeline a behaviour is about (Steam     *)
(* alerts, Epic alerts, free games, daily digest, the Steam deals cache and *)
(* its curated mix); the state of the others stays as it starts.           *)
(*                                                                         *)
(* Money is kept in hundredths (price_overview.final is in hundredths and  *)
(* the columns are DECIMAL(10,2)), so prices and targets are integers.     *)
(* The Store Price Source and the Notification Sender are the environment: *)
(* every lookup and every send draws its outcome nondeterministically.     *)
(* A database statement succeeds under Spec; under FaultSpec each          *)
(* statement may raise.  CacheSpec is the deals cache, SweepSpec the two   *)
(* evaluators over two alerts with statements that may raise,              *)
(* SubscribeSpec registration, set-up and subscription, RestartSpec the    *)
(* Steam tracker with restarts of its process.  DigestLiveSpec and         *)
(* SweepLiveSpec state the fairness of the scheduler loops, for the        *)
(* properties that say something eventually happens.                       *)
(***************************************************************************)
EXTENDS Integers, Sequences, FiniteSets, TLC

\* ---------------------------------------------------------------- bounds
MaxPrice == 2
MaxTarget == 2
MaxSent == 2
MaxFree == 2
MaxFaults == 1
MaxDay == 2

\* candidate deals the Store Deal Source can answer with
MaxCandidates == 12

\* hours the clock of the deals cache runs
MaxClock == 7

\* ---------------------------------------------------------------- inputs
Prices == 1..MaxPrice
Targets == 0..MaxTarget
ValidEmails == {<<"a", "@", "x">>}
BadEmails == {<<>>, <<"a">>}
Emails == ValidEmails \cup BadEmails
EpicEmails == {<<"a">>, <<"a", "@", "x">>}
AppIds == {10}
EpicGames == {<<"ns1", "off1">>}
Promos == {<<"ns1", "off1">>, <<"ns2", "off2">>}

\* What one price lookup returns: found is "the lookup gave game details",
\* priced is "the details carry a price", price is the price in hundredths.
NotFound == [found |-> FALSE, priced |-> FALSE, price |-> 0]
NoPrice == [found |-> TRUE, priced |-> FALSE, price |-> 0]
Priced(p) == [found |-> TRUE, priced |-> TRUE, price |-> p]
SteamAnswers == {NotFound, NoPrice} \cup {Priced(p) : p \in Prices}
\* setup_price_alert_by_appid reads of its own lookup only whether it found the game.
FirstAnswers == {NotFound, NoPrice}
EpicAnswers == {NotFound} \cup {Priced(p) : p \in Prices}

\* Outcomes of a database statement (TRUE: it succeeds) and the statement of
\* a tool that raises (0: none).
DbOk == {TRUE}
DbAny == {TRUE, FALSE}

VARIABLES
  platform,              \* "steam", "epic" (price alerts), "free_games" or "digest"
  steam_users,           \* rows of steam_users
  steam_games,           \* rows of steam_games
  price_alerts,          \* rows of price_alerts
  epic_games_users,      \* rows of epic_games_users
  epic_price_alerts,     \* rows of epic_price_alerts
  epic_free_games_alerts,\* rows of epic_free_games_alerts
  epic_subscriptions,    \* rows of epic_daily_deals_subscriptions
  scheduler_alive,       \* the scheduler loop of the deployment is running
  sweep_pc,              \* "idle" or "running": the alert evaluator
  sweep_alerts,          \* rows fetched by the running sweep, not yet visited
  faults,                \* database statements that have raised so far
  notified,              \* history: successful sends per alert id since its last setup
  promo_runs,            \* history: runs that sent a notification, per promotion
  last,                  \* history: the operation that ran last, its inputs and result
  today,                 \* the current date (CURRENT_DATE), in days
  deals_cache,           \* the global deals_cache of the process: last_updated, deals
  cache_file,            \* the content of steam_deals_cache.json
  source,                \* what the Store Deal Source answers now
  clock,                 \* the time (datetime.now()), in hours
  fetch_pending,         \* the refresh task start-up created has not started yet
  refreshing,            \* the callers whose fetch_and_cache_deals is in progress
  saving,                \* where the scheduler thread is in save_deals_cache, and what it saves
  origin,                \* history: the saved sets last_updated and deals of deals_cache come from
  daily_deals_subscriptions \* rows of daily_deals_subscriptions (Steam)

tables == <<steam_users, steam_games, price_alerts, epic_games_users,
            epic_price_alerts, epic_free_games_alerts, epic_subscriptions>>
vars == <<platform, steam_users, steam_games, price_alerts, epic_games_users,
          epic_price_alerts, epic_free_games_alerts, epic_subscriptions,
          scheduler_alive, sweep_pc, sweep_alerts, faults, notified, promo_runs, last,
          today, deals_cache, cache_file, source, clock, fetch_pending, refreshing,
          saving, origin, daily_deals_subscriptions>>

\* The state of the pipelines added to the alert and free-games pipelines.
cache_vars == <<deals_cache, cache_file, source, clock, fetch_pending, refreshing, saving,
                origin>>
aux == <<today, cache_vars, daily_deals_subscriptions>>

\* What the digest pipeline, the deals cache and the Steam subscriptions
\* leave alone of aux.
not_digest == <<cache_vars, daily_deals_subscriptions>>
not_cache == <<today, daily_deals_subscriptions>>
not_subscriptions == <<today, cache_vars>>

\* ------------------------------------------------------- history records
NoEvent ==
  [op |-> "init", id |-> 0, answer |-> NotFound, attempted |-> FALSE,
   sent |-> FALSE, res |-> "none", email |-> <<>>, target |-> 0,
   lookups |-> <<>>, row |-> 0, sends |-> {}, before |-> "none"]

Event(op) == [NoEvent EXCEPT !.op = op]

Count(f, k) == IF k \in DOMAIN f THEN f[k] ELSE 0

Bump(f, k) ==
  [i \in DOMAIN f \cup {k} |->
     IF i = k THEN (IF Count(f, k) < MaxSent THEN Count(f, k) + 1 ELSE MaxSent)
     ELSE f[i]]

Reset(f, k) == [i \in DOMAIN f \ {k} |-> f[i]]

\* ------------------------------------------------------------ validation
HasAt(email) == \E i \in DOMAIN email : email[i] = "@"

\* not email or "@" not in email
InvalidEmail(email) == email = <<>> \/ ~HasAt(email)

\* not target_price or target_price <= 0
InvalidTarget(target_price) == target_price = 0 \/ target_price <= 0

\* ---------------------------------------------------------- Steam tables
SteamUserId(users, email) ==
  IF \E u \in users : u.email = email
  THEN (CHOOSE u \in users : u.email = email).id
  ELSE 0

\* INSERT INTO steam_users (email) ... ON CONFLICT (email) DO NOTHING
InsertSteamUser(users, email) ==
  IF \E u \in users : u.email = email
  THEN users
  ELSE users \cup {[id |-> Cardinality(users) + 1, email |-> email, is_active |-> TRUE]}

\* INSERT INTO steam_games ... ON CONFLICT (app_id) DO UPDATE SET current_price
UpsertSteamGame(games, app_id, current_price) ==
  {g \in games : g.app_id # app_id}
    \cup {[app_id |-> app_id, current_price |-> current_price]}

\* Mutation of UpdateSteamGamePrice: the price is not stored.
UpdateSteamGamePriceSkipped(games, app_id, current_price) == games

\* UPDATE steam_games SET current_price = $1 WHERE app_id = $2
UpdateSteamGamePrice(games, app_id, current_price) ==
  {IF g.app_id = app_id THEN [g EXCEPT !.current_price = current_price] ELSE g : g \in games}

SteamAlertConflict(a, user_id, app_id, alert_type) ==
  a.user_id = user_id /\ a.app_id = app_id /\ a.alert_type = alert_type

\* Mutation of UpsertSteamAlert: ON CONFLICT ... DO UPDATE SET target_price alone.
UpsertSteamAlertKeepsFlags(alerts, user_id, app_id, target_price) ==
  IF \E a \in alerts : SteamAlertConflict(a, user_id, app_id, "below_target")
  THEN {IF SteamAlertConflict(a, user_id, app_id, "below_target")
        THEN [a EXCEPT !.target_price = target_price]
        ELSE a : a \in alerts}
  ELSE alerts \cup {[id |-> Cardinality(alerts) + 1, user_id |-> user_id,
                     app_id |-> app_id, target_price |-> target_price,
                     alert_type |-> "below_target", is_active |-> TRUE,
                     triggered_at |-> "null"]}

\* INSERT INTO price_alerts ... 'below_target'
\* ON CONFLICT (user_id, app_id, alert_type) DO UPDATE SET target_price,
\* is_active = TRUE, triggered_at = NULL
UpsertSteamAlert(alerts, user_id, app_id, target_price) ==
  IF \E a \in alerts : SteamAlertConflict(a, user_id, app_id, "below_target")
  THEN {IF SteamAlertConflict(a, user_id, app_id, "below_target")
        THEN [a EXCEPT !.target_price = target_price, !.is_active = TRUE,
                       !.triggered_at = "null"]
        ELSE a : a \in alerts}
  ELSE alerts \cup {[id |-> Cardinality(alerts) + 1, user_id |-> user_id,
                     app_id |-> app_id, target_price |-> target_price,
                     alert_type |-> "below_target", is_active |-> TRUE,
                     triggered_at |-> "null"]}

\* Mutation of MarkSteamTriggered: the UPDATE sets triggered_at and leaves is_active.
MarkSteamTriggeredKeepsActive(alerts, id) ==
  {IF a.id = id THEN [a EXCEPT !.triggered_at = "now"] ELSE a : a \in alerts}

\* UPDATE price_alerts SET is_active = FALSE, triggered_at = CURRENT_TIMESTAMP WHERE id = $1
MarkSteamTriggered(alerts, id) ==
  {IF a.id = id THEN [a EXCEPT !.is_active = FALSE, !.triggered_at = "now"] ELSE a : a \in alerts}

\* Mutation of SteamSelectAlerts: the SELECT without "pa.is_active = TRUE".
SteamSelectAlertsAll(alerts, games, users) ==
  {[id |-> a.id, user_id |-> a.user_id, app_id |-> a.app_id,
    target_price |-> a.target_price, alert_type |-> a.alert_type,
    current_price |-> g.current_price, email |-> u.email] :
     <<a, g, u>> \in {t \in alerts \X games \X users :
                        /\ t[1].app_id = t[2].app_id
                        /\ t[1].user_id = t[3].id
                        /\ t[3].is_active}}

\* SELECT ... FROM price_alerts pa JOIN steam_games sg JOIN steam_users su
\* WHERE pa.is_active = TRUE AND su.is_active = TRUE
SteamSelectAlerts(alerts, games, users) ==
  {[id |-> a.id, user_id |-> a.user_id, app_id |-> a.app_id,
    target_price |-> a.target_price, alert_type |-> a.alert_type,
    current_price |-> g.current_price, email |-> u.email] :
     <<a, g, u>> \in {t \in alerts \X games \X users :
                        /\ t[1].app_id = t[2].app_id
                        /\ t[1].user_id = t[3].id
                        /\ t[1].is_active
                        /\ t[3].is_active}}

\* Mutation of SteamHasPrice: a missing answer is read as a price of 0.
SteamHasPriceAlways(ans) == TRUE

\* "if game_details:" and "if price_overview:" of check_price_alerts
SteamHasPrice(ans) == ans.found /\ ans.priced

\* "if current_price_info:" of check_epic_price_alerts
EpicHasPrice(ans) == ans.found

\* Mutations of SendGuard: the result of the send is not tested / is negated.
SendGuardIgnoresResult(send_result) == TRUE

SendGuardNegated(send_result) == ~send_result

\* "if await self.email_service.send_email(...)" / "if success:": the alert
\* is marked when the send reported success
SendGuard(send_result) == send_result

\* Mutation of ShouldTrigger: the condition is not tested.
ShouldTriggerAlways(alert_type, current_price, target_price, recorded_price) == TRUE

\* Mutation of ShouldTrigger: below_target compares with < instead of <=.
ShouldTriggerStrict(alert_type, current_price, target_price, recorded_price) ==
  IF alert_type = "below_target" THEN current_price < target_price
  ELSE IF alert_type = "below_current" THEN current_price < recorded_price
  ELSE FALSE

\* should_trigger of check_price_alerts
ShouldTrigger(alert_type, current_price, target_price, recorded_price) ==
  IF alert_type = "below_target" THEN current_price <= target_price
  ELSE IF alert_type = "below_current" THEN current_price < recorded_price
  ELSE FALSE

\* UPDATE price_alerts SET is_active = FALSE
\* WHERE user_id = (SELECT id FROM steam_users WHERE email = $1) AND app_id = $2 AND is_active = TRUE
\* Mutation of DeactivateSteamAlerts: the rows are deleted.
DeleteSteamAlerts(alerts, user_id, app_id) ==
  {a \in alerts : ~(a.user_id = user_id /\ a.app_id = app_id /\ a.is_active)}

DeactivateSteamAlerts(alerts, user_id, app_id) ==
  {IF a.user_id = user_id /\ a.app_id = app_id /\ a.is_active
   THEN [a EXCEPT !.is_active = FALSE] ELSE a : a \in alerts}

\* Mutation of create_price_alert_internal: a failure of the alert upsert is
\* swallowed and the confirmation is returned.
create_price_alert_internal_swallow(email, app_id, target_price, a1, a2, fail) ==
  LET users1 == InsertSteamUser(steam_users, email)
      user_id == SteamUserId(users1, email)
      current_price == IF a2.priced THEN a2.price ELSE 0
      games1 == UpsertSteamGame(steam_games, app_id, current_price)
      alerts1 == UpsertSteamAlert(price_alerts, user_id, app_id, target_price)
      same == [users |-> steam_users, games |-> steam_games, alerts |-> price_alerts,
               res |-> "none", lookups |-> <<>>, raised |-> FALSE]
  IN IF fail = 1
     THEN [same EXCEPT !.res = "error", !.lookups = <<a1.found>>, !.raised = TRUE]
     ELSE IF ~a2.found
     THEN [same EXCEPT !.users = users1, !.res = "notfound", !.lookups = <<a1.found, a2.found>>]
     ELSE IF fail = 2
     THEN [same EXCEPT !.users = users1, !.res = "error", !.raised = TRUE,
                       !.lookups = <<a1.found, a2.found>>]
     ELSE IF fail = 3
     THEN [same EXCEPT !.users = users1, !.games = games1, !.res = "created",
                       !.raised = TRUE, !.lookups = <<a1.found, a2.found>>]
     ELSE [users |-> users1, games |-> games1, alerts |-> alerts1,
           res |-> "created", lookups |-> <<a1.found, a2.found>>, raised |-> FALSE]

\* The statements of create_price_alert_internal up to the first one that
\* raises.  fail names the statement that raises (1 user insert, 2 game
\* upsert, 3 alert upsert; 0 none); every statement is committed on its own.
create_price_alert_internal(email, app_id, target_price, a1, a2, fail) ==
  LET users1 == InsertSteamUser(steam_users, email)
      user_id == SteamUserId(users1, email)
      current_price == IF a2.priced THEN a2.price ELSE 0
      games1 == UpsertSteamGame(steam_games, app_id, current_price)
      alerts1 == UpsertSteamAlert(price_alerts, user_id, app_id, target_price)
      same == [users |-> steam_users, games |-> steam_games, alerts |-> price_alerts,
               res |-> "none", lookups |-> <<>>, raised |-> FALSE]
  IN IF fail = 1
     THEN [same EXCEPT !.res = "error", !.lookups = <<a1.found>>, !.raised = TRUE]
     ELSE IF ~a2.found
     THEN [same EXCEPT !.users = users1, !.res = "notfound", !.lookups = <<a1.found, a2.found>>]
     ELSE IF fail = 2
     THEN [same EXCEPT !.users = users1, !.res = "error", !.raised = TRUE,
                       !.lookups = <<a1.found, a2.found>>]
     ELSE IF fail = 3
     THEN [same EXCEPT !.users = users1, !.games = games1, !.res = "error",
                       !.raised = TRUE, !.lookups = <<a1.found, a2.found>>]
     ELSE [users |-> users1, games |-> games1, alerts |-> alerts1,
           res |-> "created", lookups |-> <<a1.found, a2.found>>, raised |-> FALSE]

SteamAlertId(alerts, user_id, app_id, alert_type) ==
  IF \E a \in alerts : SteamAlertConflict(a, user_id, app_id, alert_type)
  THEN (CHOOSE a \in alerts : SteamAlertConflict(a, user_id, app_id, alert_type)).id
  ELSE 0

\* The lifecycle state of the row a set-up call is about, before the call.
SteamAlertState(alerts, user_id, app_id, alert_type) ==
  IF ~\E a \in alerts : SteamAlertConflict(a, user_id, app_id, alert_type) THEN "absent"
  ELSE LET a == CHOOSE a \in alerts : SteamAlertConflict(a, user_id, app_id, alert_type)
       IN IF a.is_active THEN "active"
          ELSE IF a.triggered_at # "null" THEN "triggered"
          ELSE "removed"

\* ---------------------------------------------------------- Steam tools
\* setup_alert on Steam.  a1 is the answer to the lookup of the tool itself,
\* a2 the answer to the lookup of create_price_alert_internal.
setup_price_alert_by_appid(email, app_id, target_price, a1, a2, fail) ==
  /\ platform = "steam"
  /\ LET out == IF InvalidEmail(email) \/ InvalidTarget(target_price)
                THEN [users |-> steam_users, games |-> steam_games,
                      alerts |-> price_alerts, res |-> "invalid", lookups |-> <<>>,
                      raised |-> FALSE]
                ELSE IF ~a1.found
                THEN [users |-> steam_users, games |-> steam_games,
                      alerts |-> price_alerts, res |-> "notfound", lookups |-> <<a1.found>>,
                      raised |-> FALSE]
                ELSE create_price_alert_internal(email, app_id, target_price, a1, a2, fail)
         id == IF out.res = "created"
               THEN SteamAlertId(out.alerts, SteamUserId(out.users, email), app_id, "below_target")
               ELSE 0
     IN /\ steam_users' = out.users
        /\ steam_games' = out.games
        /\ price_alerts' = out.alerts
        /\ notified' = IF out.res = "created" THEN Reset(notified, id) ELSE notified
        /\ faults' = faults + (IF out.raised THEN 1 ELSE 0)
        /\ last' = [Event("setup") EXCEPT !.email = email, !.target = target_price,
                                          !.res = out.res, !.lookups = out.lookups,
                                          !.id = id, !.row = app_id,
                                          !.before =
                                            SteamAlertState(price_alerts,
                                                            SteamUserId(steam_users, email),
                                                            app_id, "below_target")]
  /\ UNCHANGED <<platform, aux, epic_games_users, epic_price_alerts, epic_free_games_alerts,
                 epic_subscriptions, scheduler_alive, sweep_pc, sweep_alerts, promo_runs>>

remove_price_alert(email, app_id) ==
  /\ platform = "steam"
  /\ LET user_id == SteamUserId(steam_users, email)
         hit == \E a \in price_alerts : a.user_id = user_id /\ a.app_id = app_id /\ a.is_active
     IN /\ price_alerts' = DeactivateSteamAlerts(price_alerts, user_id, app_id)
        /\ last' = [Event("remove") EXCEPT !.email = email, !.row = app_id,
                                           !.res = IF hit THEN "removed" ELSE "none_found"]
  /\ UNCHANGED <<faults, platform, aux, steam_users, steam_games, epic_games_users, epic_price_alerts,
                 epic_free_games_alerts, epic_subscriptions, scheduler_alive, sweep_pc,
                 sweep_alerts, notified, promo_runs>>

\* register_user
register_user(email) ==
  /\ platform = "steam"
  /\ steam_users' = IF InvalidEmail(email) THEN steam_users
                    ELSE InsertSteamUser(steam_users, email)
  /\ last' = [Event("register") EXCEPT !.email = email,
                                       !.res = IF InvalidEmail(email) THEN "invalid"
                                               ELSE "registered"]
  /\ UNCHANGED <<platform, not_subscriptions, daily_deals_subscriptions, steam_games,
                 price_alerts, epic_games_users, epic_price_alerts, epic_free_games_alerts,
                 epic_subscriptions, scheduler_alive, sweep_pc, sweep_alerts, faults,
                 notified, promo_runs>>

\* INSERT INTO daily_deals_subscriptions (user_id) VALUES ($1)
\* ON CONFLICT (user_id) DO UPDATE SET is_active = TRUE
UpsertSteamSubscription(subs, user_id) ==
  IF \E r \in subs : r.user_id = user_id
  THEN {IF r.user_id = user_id THEN [r EXCEPT !.is_active = TRUE] ELSE r : r \in subs}
  ELSE subs \cup {[user_id |-> user_id, is_active |-> TRUE]}

\* subscribe_digest on Steam.  pool: the database pool is there.
subscribe_daily_deals(email, pool) ==
  /\ platform = "steam"
  /\ LET user == SteamUserId(steam_users, email)
         res == IF InvalidEmail(email) THEN "invalid"
                ELSE IF ~pool THEN "no_database"
                ELSE IF user = 0 THEN "user_not_found"
                ELSE "subscribed"
     IN /\ daily_deals_subscriptions' =
             IF res = "subscribed"
             THEN UpsertSteamSubscription(daily_deals_subscriptions, user)
             ELSE daily_deals_subscriptions
        /\ last' = [Event("subscribe") EXCEPT !.email = email, !.res = res]
  /\ UNCHANGED <<platform, not_subscriptions, tables, scheduler_alive, sweep_pc,
                 sweep_alerts, faults, notified, promo_runs>>

\* list_user_alerts: SELECT ... FROM price_alerts pa JOIN steam_games sg
\* WHERE pa.user_id = (SELECT id FROM steam_users WHERE email = $1)
\* AND pa.is_active = TRUE
list_user_alerts(alerts, games, users, email) ==
  {[app_id |-> t[2].app_id, target_price |-> t[1].target_price,
    alert_type |-> t[1].alert_type, current_price |-> t[2].current_price] :
     t \in {t \in alerts \X games :
              /\ t[1].app_id = t[2].app_id
              /\ t[1].user_id = SteamUserId(users, email)
              /\ t[1].is_active}}

\* ------------------------------------------------ Steam alert evaluator
\* The scheduled run of check_price_alerts starts: the SELECT of the active
\* alerts.  An exception leaves check_price_alerts, asyncio.run and
\* schedule.run_pending, and ends the loop of run_scheduler.
SteamSweepStart(db) ==
  /\ platform = "steam" /\ scheduler_alive /\ sweep_pc = "idle"
  /\ IF db
     THEN /\ sweep_pc' = "running"
          /\ sweep_alerts' = SteamSelectAlerts(price_alerts, steam_games, steam_users)
          /\ scheduler_alive' = scheduler_alive
          /\ last' = [Event("sweep_start") EXCEPT !.res = "ok"]
     ELSE /\ sweep_pc' = "idle"
          /\ sweep_alerts' = {}
          /\ scheduler_alive' = FALSE
          /\ last' = [Event("sweep_start") EXCEPT !.res = "error"]
  /\ faults' = faults + (IF db THEN 0 ELSE 1)
  /\ UNCHANGED <<platform, aux, tables, notified, promo_runs>>

\* Mutation of StillToVisit: the alert stays on the list.
StillToVisitAll(alerts, alert) == alerts

\* "for alert in alerts": the rows of the result still to come after alert.
StillToVisit(alerts, alert) == alerts \ {alert}

\* One iteration of "for alert in alerts" of check_price_alerts.
SteamSweepStep(alert, ans, send_ok, db1, db2) ==
  /\ platform = "steam" /\ sweep_pc = "running" /\ alert \in sweep_alerts
  /\ LET priced == SteamHasPrice(ans)
         current_price == ans.price
         should_trigger == /\ priced /\ db1
                           /\ ShouldTrigger(alert.alert_type, current_price,
                                            alert.target_price, alert.current_price)
         sent == should_trigger /\ send_ok
         marks == should_trigger /\ SendGuard(send_ok)
         raised == (priced /\ ~db1) \/ (marks /\ ~db2)
     IN /\ steam_games' = IF priced /\ db1
                          THEN UpdateSteamGamePrice(steam_games, alert.app_id, current_price)
                          ELSE steam_games
        /\ price_alerts' = IF marks /\ db2
                           THEN MarkSteamTriggered(price_alerts, alert.id)
                           ELSE price_alerts
        /\ sweep_pc' = IF raised THEN "idle" ELSE "running"
        /\ sweep_alerts' = IF raised THEN {} ELSE StillToVisit(sweep_alerts, alert)
        /\ scheduler_alive' = IF raised THEN FALSE ELSE scheduler_alive
        /\ notified' = IF sent THEN Bump(notified, alert.id) ELSE notified
        /\ faults' = faults + (IF raised THEN 1 ELSE 0)
        /\ last' = [Event("sweep_step") EXCEPT !.id = alert.id, !.answer = ans,
                                               !.attempted = should_trigger, !.sent = sent,
                                               !.res = IF raised THEN "error" ELSE "ok"]
  /\ UNCHANGED <<platform, aux, steam_users, epic_games_users, epic_price_alerts,
                 epic_free_games_alerts, epic_subscriptions, promo_runs>>

\* The loop of a sweep is over ("Price check completed").
SweepEnd ==
  /\ sweep_pc = "running" /\ sweep_alerts = {}
  /\ sweep_pc' = "idle"
  /\ last' = Event("sweep_end")
  /\ UNCHANGED <<faults, platform, aux, tables, scheduler_alive, sweep_alerts, notified, promo_runs>>

\* ----------------------------------------------------------- Epic tables
EpicUserId(users, email) ==
  IF \E u \in users : u.email = email
  THEN (CHOOSE u \in users : u.email = email).id
  ELSE 0

\* _register_epic_user: INSERT INTO epic_games_users (email) ... ON CONFLICT (email) DO NOTHING
InsertEpicUser(users, email) ==
  IF \E u \in users : u.email = email
  THEN users
  ELSE users \cup {[id |-> Cardinality(users) + 1, email |-> email]}

EpicAlertConflict(a, user_id, game) == a.user_id = user_id /\ a.game = game

\* INSERT INTO epic_price_alerts ... ON CONFLICT (user_id, epic_namespace, epic_offer_id)
\* DO UPDATE SET target_price, current_price, is_active = TRUE, alert_sent = FALSE
UpsertEpicAlert(alerts, user_id, game, target_price, current_price) ==
  IF \E a \in alerts : EpicAlertConflict(a, user_id, game)
  THEN {IF EpicAlertConflict(a, user_id, game)
        THEN [a EXCEPT !.target_price = target_price, !.current_price = current_price,
                       !.is_active = TRUE, !.alert_sent = FALSE]
        ELSE a : a \in alerts}
  ELSE alerts \cup {[id |-> Cardinality(alerts) + 1, user_id |-> user_id, game |-> game,
                     target_price |-> target_price, current_price |-> current_price,
                     is_active |-> TRUE, alert_sent |-> FALSE]}

EpicAlertId(alerts, user_id, game) ==
  IF \E a \in alerts : EpicAlertConflict(a, user_id, game)
  THEN (CHOOSE a \in alerts : EpicAlertConflict(a, user_id, game)).id
  ELSE 0

\* The lifecycle state of the row a set-up call is about, before the call.
EpicAlertState(alerts, user_id, game) ==
  IF ~\E a \in alerts : EpicAlertConflict(a, user_id, game) THEN "absent"
  ELSE LET a == CHOOSE a \in alerts : EpicAlertConflict(a, user_id, game)
       IN IF a.alert_sent THEN "triggered"
          ELSE IF a.is_active THEN "active"
          ELSE "removed"

\* UPDATE epic_price_alerts SET current_price = $1 WHERE id = $2
UpdateEpicAlertPrice(alerts, id, current_price) ==
  {IF a.id = id THEN [a EXCEPT !.current_price = current_price] ELSE a : a \in alerts}

\* UPDATE epic_price_alerts SET alert_sent = TRUE WHERE id = $1
MarkEpicSent(alerts, id) ==
  {IF a.id = id THEN [a EXCEPT !.alert_sent = TRUE] ELSE a : a \in alerts}

\* SELECT epa.*, egu.email FROM epic_price_alerts epa JOIN epic_games_users egu
\* WHERE epa.is_active = TRUE AND epa.alert_sent = FALSE
\* (the columns the job reads afterwards)
EpicSelectAlerts(alerts, users) ==
  {[id |-> t[1].id, user_id |-> t[1].user_id, game |-> t[1].game,
    target_price |-> t[1].target_price, email |-> t[2].email] :
     t \in {t \in alerts \X users :
              t[1].user_id = t[2].id /\ t[1].is_active /\ ~t[1].alert_sent}}

\* last_sent IS NULL
NoDate == 0

\* Mutation of UpsertEpicSubscription: the conflicting row is replaced by a new one.
UpsertEpicSubscriptionResetsLastSent(subs, user_id, email) ==
  (subs \ {r \in subs : r.user_id = user_id /\ r.email = email})
    \cup {[user_id |-> user_id, email |-> email, is_active |-> TRUE, last_sent |-> NoDate]}

\* INSERT INTO epic_daily_deals_subscriptions (user_id, email)
\* ... ON CONFLICT (user_id, email) DO UPDATE SET is_active = TRUE
UpsertEpicSubscription(subs, user_id, email) ==
  IF \E r \in subs : r.user_id = user_id /\ r.email = email
  THEN {IF r.user_id = user_id /\ r.email = email THEN [r EXCEPT !.is_active = TRUE] ELSE r :
          r \in subs}
  ELSE subs \cup {[user_id |-> user_id, email |-> email, is_active |-> TRUE,
                   last_sent |-> NoDate]}

\* ------------------------------------------------------------ Epic tools
\* setup_alert on Epic.  fail names the statement that raises (1 the insert
\* of _register_epic_user, 2 the alert upsert; 0 none).
setup_epic_price_alert(game, email, target_price, a1, fail) ==
  /\ platform = "epic"
  /\ LET users1 == InsertEpicUser(epic_games_users, email)
         alerts1 == UpsertEpicAlert(epic_price_alerts, EpicUserId(users1, email), game,
                                    target_price, a1.price)
         raised == a1.found /\ fail # 0
         res == IF ~a1.found THEN "notfound"
                ELSE IF raised THEN "error"
                ELSE "created"
         id == IF res = "created" THEN EpicAlertId(alerts1, EpicUserId(users1, email), game)
               ELSE 0
     IN /\ epic_games_users' = IF a1.found /\ fail # 1 THEN users1 ELSE epic_games_users
        /\ epic_price_alerts' = IF res = "created" THEN alerts1 ELSE epic_price_alerts
        /\ notified' = IF res = "created" THEN Reset(notified, id) ELSE notified
        /\ faults' = faults + (IF raised THEN 1 ELSE 0)
        /\ last' = [Event("setup") EXCEPT !.email = email, !.target = target_price,
                                          !.res = res, !.lookups = <<a1.found>>, !.id = id,
                                          !.row = game,
                                          !.before =
                                            EpicAlertState(epic_price_alerts,
                                                           EpicUserId(epic_games_users, email),
                                                           game)]
  /\ UNCHANGED <<platform, aux, steam_users, steam_games, price_alerts, epic_free_games_alerts,
                 epic_subscriptions, scheduler_alive, sweep_pc, sweep_alerts, promo_runs>>

\* subscribe_digest on Epic.  fail as in setup_epic_price_alert.
subscribe_epic_free_games_alerts(email, fail) ==
  /\ platform \in {"free_games", "digest"}
  /\ LET users1 == InsertEpicUser(epic_games_users, email)
     IN /\ epic_games_users' = IF fail # 1 THEN users1 ELSE epic_games_users
        /\ epic_subscriptions' =
             IF fail = 0
             THEN UpsertEpicSubscription(epic_subscriptions, EpicUserId(users1, email), email)
             ELSE epic_subscriptions
        /\ last' = [Event("subscribe") EXCEPT !.email = email,
                                              !.res = IF fail = 0 THEN "subscribed" ELSE "error"]
  /\ faults' = faults + (IF fail # 0 THEN 1 ELSE 0)
  /\ UNCHANGED <<platform, aux, steam_users, steam_games, price_alerts, epic_price_alerts,
                 epic_free_games_alerts, scheduler_alive, sweep_pc, sweep_alerts, notified,
                 promo_runs>>

\* ------------------------------------------------- Epic alert evaluator
\* check_epic_price_alerts starts: the SELECT of the active, unsent alerts.
\* An exception is caught by the outer try of the job.
EpicSweepStart(db) ==
  /\ platform = "epic" /\ scheduler_alive /\ sweep_pc = "idle"
  /\ IF db
     THEN /\ sweep_pc' = "running"
          /\ sweep_alerts' = EpicSelectAlerts(epic_price_alerts, epic_games_users)
          /\ last' = [Event("sweep_start") EXCEPT !.res = "ok"]
     ELSE /\ sweep_pc' = "idle"
          /\ sweep_alerts' = {}
          /\ last' = [Event("sweep_start") EXCEPT !.res = "error"]
  /\ faults' = faults + (IF db THEN 0 ELSE 1)
  /\ UNCHANGED <<platform, aux, tables, scheduler_alive, notified, promo_runs>>

\* One iteration of "for alert in alerts" of check_epic_price_alerts; an
\* exception is caught by the try of the iteration and the loop continues.
EpicSweepStep(alert, ans, send_ok, db1, db2) ==
  /\ platform = "epic" /\ sweep_pc = "running" /\ alert \in sweep_alerts
  /\ LET current_price == ans.price
         target_price == alert.target_price
         priced == EpicHasPrice(ans)
         attempted == priced /\ db1 /\ current_price <= target_price
         sent == attempted /\ send_ok
         marks == attempted /\ SendGuard(send_ok)
         raised == (priced /\ ~db1) \/ (marks /\ ~db2)
         alerts1 == IF priced /\ db1
                    THEN UpdateEpicAlertPrice(epic_price_alerts, alert.id, current_price)
                    ELSE epic_price_alerts
     IN /\ epic_price_alerts' = IF marks /\ db2 THEN MarkEpicSent(alerts1, alert.id) ELSE alerts1
        /\ sweep_alerts' = StillToVisit(sweep_alerts, alert)
        /\ notified' = IF sent THEN Bump(notified, alert.id) ELSE notified
        /\ faults' = faults + (IF raised THEN 1 ELSE 0)
        /\ last' = [Event("sweep_step") EXCEPT !.id = alert.id, !.answer = ans,
                                               !.attempted = attempted, !.sent = sent,
                                               !.res = IF raised THEN "error" ELSE "ok"]
  /\ UNCHANGED <<platform, aux, steam_users, steam_games, price_alerts, epic_games_users,
                 epic_free_games_alerts, epic_subscriptions, scheduler_alive, sweep_pc,
                 promo_runs>>

\* ------------------------------------------------- free-games notifier
\* An entry of the "free now" list: the entries of the official endpoint
\* carry epic_namespace and epic_id (keyed), those of the GamerPower
\* endpoint and of the demo list do not.
FreeEntries == {[keyed |-> TRUE, promo |-> p] : p \in Promos}
                 \cup {[keyed |-> FALSE, promo |-> <<"", "">>]}

FreeLists == UNION {[1..n -> FreeEntries] : n \in 0..MaxFree}

\* Mutation of ExistingFreeAlert: the look-up of the sent mark finds nothing.
ExistingFreeAlertNever(table, promo) == FALSE

\* SELECT id FROM epic_free_games_alerts WHERE epic_namespace = $1
\* AND epic_offer_id = $2 AND alert_sent = TRUE
ExistingFreeAlert(table, promo) == \E r \in table : r.game = promo /\ r.alert_sent

\* Mutation of MarkFreeGame: the promotion is not marked.
MarkFreeGameSkipped(table, promo) == table

\* INSERT INTO epic_free_games_alerts (user_id, epic_namespace, epic_offer_id, ..., alert_sent)
\* VALUES (1, ..., TRUE) ON CONFLICT (user_id, epic_namespace, epic_offer_id)
\* DO UPDATE SET alert_sent = TRUE
MarkFreeGame(table, promo) ==
  {r \in table : r.game # promo} \cup {[user_id |-> 1, game |-> promo, alert_sent |-> TRUE]}

\* "for game in current_free" of check_epic_free_games: the rows of
\* epic_free_games_alerts afterwards, the <<promotion, email>> pairs of the
\* sends that succeeded, and whether an exception ended the loop.
RECURSIVE FreeGamesLoop(_, _, _, _, _)
FreeGamesLoop(current_free, table, subscribers, delivered, db) ==
  IF current_free = <<>>
  THEN [table |-> table, sends |-> {}, raised |-> "no"]
  ELSE LET game == Head(current_free)
       IN IF ~game.keyed
          THEN [table |-> table, sends |-> {}, raised |-> "key"]
          ELSE IF ExistingFreeAlert(table, game.promo)
          THEN FreeGamesLoop(Tail(current_free), table, subscribers, delivered, db)
          ELSE LET sends == {<<game.promo, e>> : e \in subscribers \cap delivered}
               IN IF ~db
                  THEN [table |-> table, sends |-> sends, raised |-> "db"]
                  ELSE LET rest == FreeGamesLoop(Tail(current_free),
                                                 MarkFreeGame(table, game.promo),
                                                 subscribers, delivered, db)
                       IN [rest EXCEPT !.sends = @ \cup sends]

BumpAll(f, S) ==
  [i \in DOMAIN f \cup S |->
     IF i \in S THEN (IF Count(f, i) < MaxSent THEN Count(f, i) + 1 ELSE MaxSent)
     ELSE f[i]]

\* One run of check_epic_free_games.  delivered is the set of recipients to
\* whom a send succeeds in this run.
check_epic_free_games(current_free, delivered, db) ==
  /\ platform = "free_games" /\ scheduler_alive
  /\ LET subscribers == {r.email : r \in {r \in epic_subscriptions : r.is_active}}
         out == IF current_free = <<>>
                THEN [table |-> epic_free_games_alerts, sends |-> {}, raised |-> "no"]
                ELSE FreeGamesLoop(current_free, epic_free_games_alerts, subscribers,
                                   delivered, db)
     IN /\ epic_free_games_alerts' = out.table
        /\ promo_runs' = BumpAll(promo_runs, {x[1] : x \in out.sends})
        /\ faults' = faults + (IF out.raised = "db" THEN 1 ELSE 0)
        /\ last' = [Event("free_check") EXCEPT !.sends = out.sends,
                                               !.row = {current_free[i].promo :
                                                          i \in {j \in DOMAIN current_free :
                                                                    current_free[j].keyed}},
                                               !.res = IF out.raised = "db" THEN "db_error"
                                                       ELSE IF out.raised = "key" THEN "error"
                                                       ELSE "ok"]
  /\ UNCHANGED <<platform, aux, steam_users, steam_games, price_alerts, epic_games_users,
                 epic_price_alerts, epic_subscriptions, scheduler_alive, sweep_pc,
                 sweep_alerts, notified>>

\* ---------------------------------------------------------- daily digest
\* Mutation of DigestSelect: the SELECT has no condition on last_sent.
DigestSelectAllActive(subs, date) == {r.email : r \in {r \in subs : r.is_active}}

\* SELECT email FROM epic_daily_deals_subscriptions WHERE is_active = TRUE
\* AND (last_sent IS NULL OR last_sent < CURRENT_DATE)
DigestSelect(subs, date) ==
  {r.email : r \in {r \in subs : r.is_active /\ (r.last_sent = NoDate \/ r.last_sent < date)}}

\* Mutation of DigestMarkSent: the UPDATE has no WHERE.
DigestMarkSentAll(subs, emails, date) == {[r EXCEPT !.last_sent = date] : r \in subs}

\* UPDATE epic_daily_deals_subscriptions SET last_sent = CURRENT_TIMESTAMP WHERE email = $1
DigestMarkSent(subs, emails, date) ==
  {IF r.email \in emails THEN [r EXCEPT !.last_sent = date] ELSE r : r \in subs}

\* One run of send_daily_epic_deals.  deals: get_trending_deals returned a
\* non-empty list; delivered: the recipients to whom the send succeeds; db:
\* the SELECT succeeds; failing: the recipients whose UPDATE raises (caught
\* by the try of the iteration).
send_daily_epic_deals(deals, delivered, db, failing) ==
  /\ platform = "digest" /\ scheduler_alive
  /\ LET attempted == IF deals /\ db THEN DigestSelect(epic_subscriptions, today) ELSE {}
         sent == attempted \cap delivered
         raised == (IF deals /\ ~db THEN 1 ELSE 0) + Cardinality(sent \cap failing)
     IN /\ epic_subscriptions' = DigestMarkSent(epic_subscriptions, sent \ failing, today)
        /\ faults' = faults + raised
        /\ last' = [Event("digest") EXCEPT !.sends = sent, !.row = attempted,
                                           !.res = IF ~deals THEN "no_deals"
                                                   ELSE IF raised > 0 THEN "error"
                                                   ELSE "ok"]
  /\ UNCHANGED <<platform, today, not_digest, steam_users, steam_games, price_alerts, epic_games_users,
                 epic_price_alerts, epic_free_games_alerts, scheduler_alive, sweep_pc,
                 sweep_alerts, notified, promo_runs>>

\* get_epic_deals_today.  deals: what get_trending_deals returned.  res is
\* the kind of text returned: "no_deals_found" ("No Epic Games deals found
\* today."), or the list of the deals, with ("listed_sent") or without
\* ("listed") the line that they were sent to the address.
get_epic_deals_today(email, deals, send_ok) ==
  /\ platform = "digest"
  /\ last' = [Event("deals_today") EXCEPT
                !.email = email, !.row = deals,
                !.attempted = (deals # <<>>),
                !.sent = (deals # <<>> /\ send_ok),
                !.res = IF deals = <<>> THEN "no_deals_found"
                        ELSE IF send_ok THEN "listed_sent" ELSE "listed"]
  /\ UNCHANGED <<platform, today, not_digest, faults, tables, scheduler_alive, sweep_pc,
                 sweep_alerts, notified, promo_runs>>

\* Midnight passes: CURRENT_DATE moves on by a day.
NextDay ==
  /\ platform = "digest" /\ today < MaxDay
  /\ today' = today + 1
  /\ last' = Event("next_day")
  /\ UNCHANGED <<platform, not_digest, faults, tables, scheduler_alive, sweep_pc, sweep_alerts, notified,
                 promo_runs>>

\* ------------------------------------------------------------ deals cache
\* "last_updated": None
NoTime == 0

EmptyCache == [last_updated |-> NoTime, deals |-> <<>>]

\* len(final_deals) < 10
TargetSize == 10

\* by_popularity[:3], old_games[:2], huge_discounts[:2]
PopularQuota == 3

OldQuota == 2

HugeQuota == 2

\* deal['discount'] >= 50
HugeDiscount == 50

\* deal['app_id'] < 500000
OldAppIdLimit == 500000

\* deals[:8]
EmergencyLimit == 8

\* cache_age_limit = 6 * 60 * 60, in hours
CacheAgeLimit == 6

\* popular_games[:20]
PopularTop20 ==
  {271590, 292030, 377160, 1174180, 489830, 1091500, 1245620, 1086940, 413150, 594650,
   252490, 322330, 394360, 236850, 730, 570, 578080, 813780, 431960, 524220}

EmergencyAppIds ==
  <<271590, 1086940, 1174180, 292030, 570, 730, 440, 1938090, 524220, 1245620,
    377160, 413150, 431960, 252490, 578080>>

\* What check_app_for_deal can return for games of popular_games, in the order
\* of that list: popular, old and huge-discount games in every combination.
CandidateDeals ==
  << [app_id |-> 271590,  discount |-> 75],
     [app_id |-> 292030,  discount |-> 25],
     [app_id |-> 377160,  discount |-> 40],
     [app_id |-> 1174180, discount |-> 60],
     [app_id |-> 1091500, discount |-> 20],
     [app_id |-> 359550,  discount |-> 80],
     [app_id |-> 646570,  discount |-> 50],
     [app_id |-> 1151640, discount |-> 10],
     [app_id |-> 435150,  discount |-> 30],
     [app_id |-> 975370,  discount |-> 15],
     [app_id |-> 1145360, discount |-> 90],
     [app_id |-> 892970,  discount |-> 35],
     [app_id |-> 1794680, discount |-> 45] >>

\* The candidates numbered in S, in the order of the list.
Candidates(S) ==
  LET F[i \in 0..Len(CandidateDeals)] ==
        IF i = 0 THEN <<>>
        ELSE IF i \in S THEN Append(F[i - 1], CandidateDeals[i]) ELSE F[i - 1]
  IN F[Len(CandidateDeals)]

\* if discount >= 10
MinDiscount == 10

\* The answers of the store for games that have the deals given.
Answers(deals) ==
  [i \in DOMAIN deals |->
     [app_id |-> deals[i].app_id, discount |-> deals[i].discount, priced |-> TRUE]]

\* Mutation of check_app_for_deal: the discount is not tested.
check_app_for_deal_any_discount(game_data) == game_data.priced

\* check_app_for_deal returns a deal: the game has a price_overview and its
\* discount_percent is 10 or more.
check_app_for_deal(game_data) == game_data.priced /\ game_data.discount >= MinDiscount

\* The deals check_app_for_deal returns for the answers of the store, in
\* their order.
CheckedDeals(answers) ==
  LET kept == SelectSeq(answers, check_app_for_deal)
  IN [i \in DOMAIN kept |-> [app_id |-> kept[i].app_id, discount |-> kept[i].discount]]

\* The Store Deal Source: reachable or not, what it answers for the popular
\* games and for the games of its featured lists (priced: with a
\* price_overview).
Unreachable == [up |-> FALSE, deals |-> <<>>, featured |-> <<>>]

Reachable(deals, featured) == [up |-> TRUE, deals |-> deals, featured |-> featured]

CurateSources == {Reachable(Answers(Candidates(S)), <<>>) : S \in SUBSET (1..MaxCandidates)}

CacheSources ==
  {Unreachable,
   Reachable(<<>>, <<>>),
   Reachable(Answers(Candidates({1})), <<>>),
   Reachable(Answers(Candidates({1, 6})),
             <<[app_id |-> 271590, discount |-> 80, priced |-> TRUE]>>),
   Reachable(<<[app_id |-> 292030, discount |-> 5, priced |-> TRUE],
               [app_id |-> 377160, discount |-> 60, priced |-> FALSE],
               [app_id |-> 1174180, discount |-> 60, priced |-> TRUE]>>,
             <<[app_id |-> 730, discount |-> 0, priced |-> TRUE]>>)}

\* all_deals: check_app_for_deal and search_steam_featured_deals swallow
\* every error.
LiveDeals(src) == IF src.up THEN CheckedDeals(src.deals \o src.featured) ELSE <<>>

DealIds(deals) == {deals[i].app_id : i \in DOMAIN deals}

Take(s, n) == SubSeq(s, 1, IF Len(s) < n THEN Len(s) ELSE n)

\* Mutation of UniqueDeals: no deal is dropped.
UniqueDealsKeepsAll(all_deals, unique_deals) == all_deals

\* Mutation of SortedByDiscount: the list is left in its order.
SortedByDiscountUnsorted(deals) == deals

\* unique_deals: one deal per app_id, the higher discount wins.
RECURSIVE UniqueDeals(_, _)
UniqueDeals(all_deals, unique_deals) ==
  IF all_deals = <<>> THEN unique_deals
  ELSE LET deal == Head(all_deals)
           held == {i \in DOMAIN unique_deals : unique_deals[i].app_id = deal.app_id}
       IN UniqueDeals(Tail(all_deals),
            IF held = {} THEN Append(unique_deals, deal)
            ELSE [i \in DOMAIN unique_deals |->
                    IF i \in held /\ deal.discount > unique_deals[i].discount
                    THEN deal ELSE unique_deals[i]])

\* sorted(all_unique_deals, key=discount, reverse=True): stable
InsertByDiscount(sorted, deal) ==
  LET k == Cardinality({i \in DOMAIN sorted : sorted[i].discount >= deal.discount})
  IN SubSeq(sorted, 1, k) \o <<deal>> \o SubSeq(sorted, k + 1, Len(sorted))

SortedByDiscount(deals) ==
  LET F[i \in 0..Len(deals)] ==
        IF i = 0 THEN <<>> ELSE InsertByDiscount(F[i - 1], deals[i])
  IN F[Len(deals)]

HasRoomAlways(final_deals) == TRUE

\* len(final_deals) < 10
HasRoom(final_deals) == Len(final_deals) < TargetSize

\* One loop of the mix: a deal is appended when its app_id was not added yet
\* and, in the loops that test it, while the list has room.
RECURSIVE AddDeals(_, _, _)
AddDeals(final_deals, bucket, guarded) ==
  IF bucket = <<>> THEN final_deals
  ELSE LET deal == Head(bucket)
       IN AddDeals(IF /\ deal.app_id \notin DealIds(final_deals)
                      /\ (guarded => HasRoom(final_deals))
                   THEN Append(final_deals, deal) ELSE final_deals,
                   Tail(bucket), guarded)

CuratedMix(all_unique_deals) ==
  LET IsPopular(deal) == deal.app_id \in PopularTop20
      IsOld(deal) == deal.app_id < OldAppIdLimit
      IsHuge(deal) == deal.discount >= HugeDiscount
      by_discount == SortedByDiscount(all_unique_deals)
      by_popularity == SelectSeq(all_unique_deals, IsPopular)
      old_games == SelectSeq(all_unique_deals, IsOld)
      huge_discounts == SelectSeq(all_unique_deals, IsHuge)
      popular == AddDeals(<<>>, Take(by_popularity, PopularQuota), FALSE)
      old == AddDeals(popular, Take(old_games, OldQuota), TRUE)
      huge == AddDeals(old, Take(huge_discounts, HugeQuota), TRUE)
  IN AddDeals(huge, by_discount, TRUE)

\* get_emergency_deals: the emergency games that have a deal, in the order of
\* emergency_app_ids, at most eight of them.
EmergencyDeals(src) ==
  LET live == IF src.up THEN CheckedDeals(src.deals) ELSE <<>>
      F[i \in 0..Len(EmergencyAppIds)] ==
        IF i = 0 THEN <<>>
        ELSE LET found == {j \in DOMAIN live : live[j].app_id = EmergencyAppIds[i]}
             IN IF found = {} THEN F[i - 1]
                ELSE Append(F[i - 1], live[CHOOSE j \in found : \A k \in found : j <= k])
  IN Take(F[Len(EmergencyAppIds)], EmergencyLimit)

\* fetch_and_cache_deals is called: by the scheduler thread
\* (refresh_deals_cache), by the tool (refresh_deals_cache_tool) in the loop
\* of the server, or as the task start-up created.  The call then awaits the
\* look-ups of the store.
RefreshCallers == {"scheduler", "tool", "task"}

refresh_start(by) ==
  /\ platform \in {"cache", "curate"}
  /\ by \notin refreshing
  /\ by = "scheduler" => scheduler_alive
  /\ by = "task" => fetch_pending
  /\ refreshing' = refreshing \cup {by}
  /\ fetch_pending' = (fetch_pending /\ by # "task")
  /\ last' = [Event("refresh_start") EXCEPT !.res = by]
  /\ UNCHANGED <<platform, not_cache, deals_cache, cache_file, source, clock, saving,
                 origin, tables,
                 scheduler_alive, sweep_pc, sweep_alerts, faults, notified, promo_runs>>

NoSave == [pc |-> "none", data |-> EmptyCache]

\* The rest of fetch_and_cache_deals, once the look-ups have answered: the
\* curated mix is built and save_deals_cache is called.  In the loop of the
\* server (tool, task) save_deals_cache has no await and no reader of that
\* loop runs inside it.  The scheduler thread runs beside the loop of the
\* server: its save_deals_cache is modelled statement by statement, here up
\* to open(cache_file, 'w'), which truncates the file (load_deals_cache reads
\* a truncated file as no cache: json.load raises and the error is caught).
fetch_and_cache_deals(by) ==
  /\ platform \in {"cache", "curate"}
  /\ by \in refreshing
  /\ by = "scheduler" => saving.pc = "none"
  /\ LET all_unique_deals == UniqueDeals(LiveDeals(source), <<>>)
         final_deals == CuratedMix(all_unique_deals)
         saved == [last_updated |-> clock, deals |-> final_deals]
     IN /\ IF by = "scheduler"
           THEN /\ cache_file' = EmptyCache
                /\ saving' = [pc |-> "dump", data |-> saved]
                /\ UNCHANGED <<deals_cache, origin, refreshing>>
           ELSE /\ cache_file' = saved
                /\ deals_cache' = saved
                /\ origin' = [stamp |-> saved, deals |-> saved]
                /\ refreshing' = refreshing \ {by}
                /\ UNCHANGED saving
        /\ last' = [Event("refresh") EXCEPT !.row = final_deals,
                                            !.lookups = all_unique_deals,
                                            !.res = by]
  /\ UNCHANGED <<platform, not_cache, source, clock, fetch_pending, tables,
                 scheduler_alive, sweep_pc, sweep_alerts, faults, notified, promo_runs>>

\* save_deals_cache in the scheduler thread: json.dump(cache_data, f) and the
\* file is closed.
save_deals_cache_dump ==
  /\ platform = "cache" /\ saving.pc = "dump"
  /\ cache_file' = saving.data
  /\ saving' = [saving EXCEPT !.pc = "stamp"]
  /\ last' = Event("save_dump")
  /\ UNCHANGED <<platform, not_cache, deals_cache, source, clock, fetch_pending,
                 refreshing, origin, tables, scheduler_alive, sweep_pc, sweep_alerts,
                 faults, notified, promo_runs>>

\* deals_cache["last_updated"] = cache_data["last_updated"]
save_deals_cache_stamp ==
  /\ platform = "cache" /\ saving.pc = "stamp"
  /\ deals_cache' = [deals_cache EXCEPT !.last_updated = saving.data.last_updated]
  /\ origin' = [origin EXCEPT !.stamp = saving.data]
  /\ saving' = [saving EXCEPT !.pc = "deals"]
  /\ last' = Event("save_stamp")
  /\ UNCHANGED <<platform, not_cache, cache_file, source, clock, fetch_pending,
                 refreshing, tables, scheduler_alive, sweep_pc, sweep_alerts, faults,
                 notified, promo_runs>>

\* deals_cache["deals"] = deals; save_deals_cache and the refresh of the
\* scheduler thread are over.
save_deals_cache_deals ==
  /\ platform = "cache" /\ saving.pc = "deals"
  /\ deals_cache' = [deals_cache EXCEPT !.deals = saving.data.deals]
  /\ origin' = [origin EXCEPT !.deals = saving.data]
  /\ saving' = NoSave
  /\ refreshing' = refreshing \ {"scheduler"}
  /\ last' = Event("save_deals")
  /\ UNCHANGED <<platform, not_cache, cache_file, source, clock, fetch_pending, tables,
                 scheduler_alive, sweep_pc, sweep_alerts, faults, notified, promo_runs>>

\* get_cached_deals, as send_top_deals_today calls it.
get_cached_deals ==
  /\ platform = "cache"
  /\ LET loaded == IF deals_cache.deals = <<>> THEN cache_file ELSE deals_cache
         emergency == EmergencyDeals(source)
     IN /\ deals_cache' = loaded
        /\ origin' = IF deals_cache.deals = <<>>
                     THEN [stamp |-> cache_file, deals |-> cache_file] ELSE origin
        /\ last' = [Event("get_deals") EXCEPT
                      !.row = IF loaded.deals # <<>> THEN loaded.deals ELSE emergency,
                      !.res = IF loaded.deals # <<>> THEN "cache"
                              ELSE IF emergency # <<>> THEN "emergency" ELSE "empty"]
  /\ UNCHANGED <<platform, not_cache, cache_file, source, clock, fetch_pending, refreshing,
                 saving, tables,
                 scheduler_alive, sweep_pc, sweep_alerts, faults, notified, promo_runs>>

\* send_top_deals_today: get_cached_deals (which falls back to
\* get_emergency_deals), get_emergency_deals once more when that is empty,
\* then send_deals_email.  res is the kind of text returned: "invalid",
\* "unavailable" ("No deals available right now ..."), "send_failed" (all
\* three reported as a failure), or "sent".
send_top_deals_today(email, send_ok) ==
  /\ platform = "cache"
  /\ IF InvalidEmail(email)
     THEN /\ last' = [Event("deals_today") EXCEPT !.email = email, !.row = <<>>,
                                                   !.res = "invalid"]
          /\ UNCHANGED <<deals_cache, origin>>
     ELSE LET loaded == IF deals_cache.deals = <<>> THEN cache_file ELSE deals_cache
              emergency == EmergencyDeals(source)
              top_deals == IF loaded.deals # <<>> THEN loaded.deals ELSE emergency
          IN /\ deals_cache' = loaded
             /\ origin' = IF deals_cache.deals = <<>>
                          THEN [stamp |-> cache_file, deals |-> cache_file] ELSE origin
             /\ last' = [Event("deals_today") EXCEPT
                           !.email = email, !.row = top_deals,
                           !.attempted = (top_deals # <<>>),
                           !.sent = (top_deals # <<>> /\ send_ok),
                           !.res = IF top_deals = <<>> THEN "unavailable"
                                   ELSE IF send_ok THEN "sent" ELSE "send_failed"]
  /\ UNCHANGED <<platform, not_cache, cache_file, source, clock, fetch_pending, refreshing,
                 saving, tables,
                 scheduler_alive, sweep_pc, sweep_alerts, faults, notified, promo_runs>>

cache_is_fresh(cache, now) ==
  cache.last_updated # NoTime /\ now - cache.last_updated < CacheAgeLimit

\* initialize_services, in a process of the Steam tracker that has just
\* started: the cache file is loaded and a refresh is started in the
\* background when the cache is empty or not fresh; then
\* db_manager.initialize runs create_tables, which drops the tables of the
\* tracker and creates them again, and the scheduler thread is started only
\* when the database could be initialized.  Nothing of the process before,
\* a sweep or a refresh in progress, is left.
initialize_services(db_ok) ==
  /\ platform \in {"cache", "steam"}
  /\ deals_cache' = cache_file
  /\ origin' = [stamp |-> cache_file, deals |-> cache_file]
  /\ fetch_pending' = (~cache_is_fresh(cache_file, clock) \/ cache_file.deals = <<>>)
  /\ refreshing' = {}
  /\ saving' = NoSave
  /\ IF db_ok
     THEN /\ steam_users' = {} /\ steam_games' = {} /\ price_alerts' = {}
          /\ daily_deals_subscriptions' = {}
          /\ notified' = [i \in {} |-> 0]
     ELSE UNCHANGED <<steam_users, steam_games, price_alerts, daily_deals_subscriptions,
                      notified>>
  /\ scheduler_alive' = db_ok
  /\ sweep_pc' = "idle" /\ sweep_alerts' = {}
  /\ last' = [Event("startup") EXCEPT !.res = IF db_ok THEN "ok" ELSE "search_only"]
  /\ UNCHANGED <<platform, today, cache_file, source, clock, epic_games_users,
                 epic_price_alerts, epic_free_games_alerts, epic_subscriptions, faults,
                 promo_runs>>

\* The source becomes reachable or unreachable, its deals change.
SourceChanges ==
  /\ platform = "cache"
  /\ \E src \in CacheSources : src # source /\ source' = src
  /\ last' = Event("source")
  /\ UNCHANGED <<platform, not_cache, deals_cache, cache_file, clock, fetch_pending,
                 refreshing, saving, origin, tables,
                 scheduler_alive, sweep_pc, sweep_alerts, faults, notified, promo_runs>>

\* An hour passes, none of it inside save_deals_cache.  While the scheduler
\* runs, refresh_deals_cache is due every CacheAgeLimit hours, so the hour
\* that would make the cache that old does not pass before a refresh.
Tick ==
  /\ platform = "cache"
  /\ clock < MaxClock
  /\ saving.pc = "none"
  /\ (scheduler_alive /\ cache_file.last_updated # NoTime)
       => clock + 1 - cache_file.last_updated < CacheAgeLimit
  /\ clock' = clock + 1
  /\ last' = Event("tick")
  /\ UNCHANGED <<platform, not_cache, deals_cache, cache_file, source, fetch_pending,
                 refreshing, saving, origin, tables,
                 scheduler_alive, sweep_pc, sweep_alerts, faults, notified, promo_runs>>

\* ------------------------------------------------------- specifications
SeedEmail == <<"a", "@", "x">>

\* The Steam tables are empty after start-up, or hold one below_current
\* alert (a type the evaluator handles and no tool creates).
InitSteam ==
  /\ platform = "steam"
  /\ \/ /\ steam_users = {} /\ steam_games = {} /\ price_alerts = {}
     \/ \E p \in Prices :
          /\ steam_users = {[id |-> 1, email |-> SeedEmail, is_active |-> TRUE]}
          /\ steam_games = {[app_id |-> 10, current_price |-> p]}
          /\ price_alerts = {[id |-> 1, user_id |-> 1, app_id |-> 10, target_price |-> 1,
                              alert_type |-> "below_current", is_active |-> TRUE,
                              triggered_at |-> "null"]}

InitEpic ==
  /\ platform \in {"epic", "free_games", "digest"}
  /\ steam_users = {} /\ steam_games = {} /\ price_alerts = {}

\* No deals cache yet, in the pipelines that are not about it.
NoCache ==
  /\ deals_cache = EmptyCache /\ cache_file = EmptyCache
  /\ source = Unreachable /\ clock = 1 /\ fetch_pending = FALSE /\ refreshing = {}
  /\ saving = NoSave /\ origin = [stamp |-> EmptyCache, deals |-> EmptyCache]

Init ==
  /\ InitSteam \/ InitEpic
  /\ NoCache
  /\ epic_games_users = {} /\ epic_price_alerts = {}
  /\ epic_free_games_alerts = {} /\ epic_subscriptions = {}
  /\ scheduler_alive = TRUE
  /\ sweep_pc = "idle" /\ sweep_alerts = {}
  /\ faults = 0
  /\ notified = [i \in {} |-> 0]
  /\ promo_runs = [i \in {} |-> 0]
  /\ last = NoEvent
  /\ today = 1
  /\ daily_deals_subscriptions = {}

\* The environment answers a lookup, a send or a statement only when the
\* code gets to ask.
\* A statement can raise while fewer than MaxFaults statements have raised.
Budget(outcomes, ok) == IF faults < MaxFaults THEN outcomes ELSE ok

SteamSetup(F) ==
  \E email \in Emails, app_id \in AppIds, target_price \in Targets :
    \E a1 \in (IF InvalidEmail(email) \/ InvalidTarget(target_price)
               THEN {NotFound} ELSE FirstAnswers) :
    \E fail \in (IF a1.found THEN Budget(F, {0}) ELSE {0}) :
      \E a2 \in (IF a1.found /\ fail # 1 THEN SteamAnswers ELSE {NotFound}) :
        setup_price_alert_by_appid(email, app_id, target_price, a1, a2, fail)

SteamRemove == \E email \in ValidEmails, app_id \in AppIds : remove_price_alert(email, app_id)

SteamStart(D) == \E db \in Budget(D, {TRUE}) : SteamSweepStart(db)

SteamStep(D) ==
  \E alert \in sweep_alerts, ans \in SteamAnswers :
    \E send_ok \in (IF ans.priced THEN BOOLEAN ELSE {FALSE}),
       db1 \in (IF ans.priced THEN Budget(D, {TRUE}) ELSE {TRUE}) :
      \E db2 \in (IF send_ok /\ db1 THEN Budget(D, {TRUE}) ELSE {TRUE}) :
        SteamSweepStep(alert, ans, send_ok, db1, db2)

EpicSetup(F) ==
  \E game \in EpicGames, email \in EpicEmails, target_price \in Targets, a1 \in EpicAnswers :
    \E fail \in (IF a1.found THEN Budget(F \cap 0..2, {0}) ELSE {0}) :
      setup_epic_price_alert(game, email, target_price, a1, fail)

EpicSubscribe(F) ==
  \E email \in Emails, fail \in Budget(F \cap 0..2, {0}) : subscribe_epic_free_games_alerts(email, fail)

EpicStart(D) == \E db \in Budget(D, {TRUE}) : EpicSweepStart(db)

EpicStep(D) ==
  \E alert \in sweep_alerts, ans \in EpicAnswers :
    \E send_ok \in (IF ans.found THEN BOOLEAN ELSE {FALSE}),
       db1 \in (IF ans.found THEN Budget(D, {TRUE}) ELSE {TRUE}) :
      \E db2 \in (IF send_ok /\ db1 THEN Budget(D, {TRUE}) ELSE {TRUE}) :
        EpicSweepStep(alert, ans, send_ok, db1, db2)

EpicFreeGames(D) ==
  \E current_free \in FreeLists, delivered \in SUBSET Emails, db \in Budget(D, {TRUE}) :
    check_epic_free_games(current_free, delivered, db)

\* F: the sets of recipients whose UPDATE may raise in one run.
EpicDigest(D, F) ==
  \E deals \in BOOLEAN, delivered \in SUBSET Emails, db \in Budget(D, {TRUE}) :
    \E failing \in (IF deals /\ db THEN Budget(F, {{}}) ELSE {{}}) :
      send_daily_epic_deals(deals, delivered, db, failing)

Next ==
  \/ SteamSetup({0})
  \/ SteamRemove
  \/ SteamStart(DbOk)
  \/ SteamStep(DbOk)
  \/ EpicSetup({0})
  \/ EpicSubscribe({0})
  \/ EpicStart(DbOk)
  \/ EpicStep(DbOk)
  \/ EpicFreeGames(DbOk)
  \/ EpicDigest(DbOk, {{}})
  \/ NextDay
  \/ SweepEnd

Spec == Init /\ [][Next]_vars

FaultNext ==
  \/ SteamSetup(0..3)
  \/ SteamRemove
  \/ SteamStart(DbAny)
  \/ SteamStep(DbAny)
  \/ EpicSetup(0..3)
  \/ EpicSubscribe(0..3)
  \/ EpicStart(DbAny)
  \/ EpicStep(DbAny)
  \/ EpicFreeGames(DbAny)
  \/ EpicDigest(DbAny, {{}} \cup {{e} : e \in Emails})
  \/ NextDay
  \/ SweepEnd

FaultSpec == Init /\ [][FaultNext]_vars

\* The deals cache: a process that has initialized its services, with no
\* cache file or the file an earlier process left; and the curated mix of
\* every list of candidates.
CacheInit ==
  /\ \/ /\ platform = "cache"
        /\ source \in CacheSources
        /\ cache_file \in {EmptyCache,
                            [last_updated |-> 1, deals |-> Candidates({1})]}
        /\ deals_cache = cache_file
        /\ fetch_pending = (~cache_is_fresh(cache_file, 1) \/ cache_file.deals = <<>>)
        /\ scheduler_alive \in BOOLEAN
     \/ /\ platform = "curate"
        /\ source \in CurateSources
        /\ cache_file = EmptyCache
        /\ deals_cache = EmptyCache
        /\ fetch_pending = FALSE
        /\ scheduler_alive = FALSE
  /\ clock = 1 /\ refreshing = {}
  /\ saving = NoSave /\ origin = [stamp |-> cache_file, deals |-> cache_file]
  /\ steam_users = {} /\ steam_games = {} /\ price_alerts = {}
  /\ epic_games_users = {} /\ epic_price_alerts = {}
  /\ epic_free_games_alerts = {} /\ epic_subscriptions = {}
  /\ sweep_pc = "idle" /\ sweep_alerts = {}
  /\ faults = 0
  /\ notified = [i \in {} |-> 0]
  /\ promo_runs = [i \in {} |-> 0]
  /\ last = NoEvent
  /\ today = 1
  /\ daily_deals_subscriptions = {}

RefreshStart == \E by \in RefreshCallers : refresh_start(by)

Refresh == \E by \in RefreshCallers : fetch_and_cache_deals(by)

StartUp == \E db_ok \in BOOLEAN : initialize_services(db_ok)

CacheNext ==
  \/ StartUp
  \/ RefreshStart
  \/ Refresh
  \/ save_deals_cache_dump
  \/ save_deals_cache_stamp
  \/ save_deals_cache_deals
  \/ get_cached_deals
  \/ SourceChanges
  \/ Tick

CacheSpec == CacheInit /\ [][CacheNext]_vars

\* Registration, set-up and subscription, on both deployments.
SteamRegister == \E email \in Emails : register_user(email)

SteamSubscribe == \E email \in Emails, pool \in BOOLEAN : subscribe_daily_deals(email, pool)

SubscribeNext ==
  \/ SteamSetup({0})
  \/ SteamRegister
  \/ SteamSubscribe
  \/ EpicSetup({0})
  \/ EpicSubscribe({0})

SubscribeSpec == Init /\ [][SubscribeNext]_vars

\* Subscriptions to the digest on both deployments, between the runs of the
\* Epic digest job.
ResubscribeNext ==
  \/ SteamRegister
  \/ SteamSubscribe
  \/ EpicSubscribe(0..2)
  \/ EpicDigest(DbOk, {{}})
  \/ NextDay

ResubscribeSpec == Init /\ [][ResubscribeNext]_vars

\* The Steam tracker with restarts of its process.
RestartInit == Init /\ platform = "steam"

RestartNext ==
  \/ SteamSetup({0})
  \/ SteamRemove
  \/ SteamRegister
  \/ SteamSubscribe
  \/ SteamStart(DbOk)
  \/ SteamStep(DbOk)
  \/ SweepEnd
  \/ StartUp

RestartSpec == RestartInit /\ [][RestartNext]_vars

\* The alert evaluators over two alerts of one user, with statements that may
\* raise: what a failure on one alert does to the rest of the sweep.
SweepInit ==
  /\ \/ \E p \in Prices :
          /\ platform = "steam"
          /\ steam_users = {[id |-> 1, email |-> SeedEmail, is_active |-> TRUE]}
          /\ steam_games = {[app_id |-> 10, current_price |-> p],
                             [app_id |-> 20, current_price |-> p]}
          /\ price_alerts = {[id |-> 1, user_id |-> 1, app_id |-> 10, target_price |-> 1,
                              alert_type |-> "below_target", is_active |-> TRUE,
                              triggered_at |-> "null"],
                             [id |-> 2, user_id |-> 1, app_id |-> 20, target_price |-> 1,
                              alert_type |-> "below_current", is_active |-> TRUE,
                              triggered_at |-> "null"]}
          /\ epic_games_users = {} /\ epic_price_alerts = {}
     \/ \E p \in Prices :
          /\ platform = "epic"
          /\ steam_users = {} /\ steam_games = {} /\ price_alerts = {}
          /\ epic_games_users = {[id |-> 1, email |-> SeedEmail]}
          /\ epic_price_alerts = {[id |-> 1, user_id |-> 1, game |-> <<"ns1", "off1">>,
                                   target_price |-> 1, current_price |-> p,
                                   is_active |-> TRUE, alert_sent |-> FALSE],
                                  [id |-> 2, user_id |-> 1, game |-> <<"ns2", "off2">>,
                                   target_price |-> 2, current_price |-> p,
                                   is_active |-> TRUE, alert_sent |-> FALSE]}
  /\ NoCache
  /\ epic_free_games_alerts = {} /\ epic_subscriptions = {}
  /\ scheduler_alive = TRUE
  /\ sweep_pc = "idle" /\ sweep_alerts = {}
  /\ faults = 0
  /\ notified = [i \in {} |-> 0]
  /\ promo_runs = [i \in {} |-> 0]
  /\ last = NoEvent
  /\ today = 1
  /\ daily_deals_subscriptions = {}

SweepNext ==
  \/ SteamStart(DbAny)
  \/ SteamStep(DbAny)
  \/ EpicStart(DbAny)
  \/ EpicStep(DbAny)
  \/ SweepEnd

SweepSpec == SweepInit /\ [][SweepNext]_vars

\* The deals sent on request and by the daily job: send_top_deals_today over
\* the cache as start-up left it, get_epic_deals_today and
\* send_daily_epic_deals over the subscriptions.
TrendingDeals == {<<>>, <<"deal">>}

DealsNowInit ==
  \/ Init /\ platform = "digest"
  \/ CacheInit /\ platform = "cache"

SteamDealsToday == \E email \in Emails, send_ok \in BOOLEAN : send_top_deals_today(email, send_ok)

EpicDealsToday ==
  \E email \in Emails, deals \in TrendingDeals, send_ok \in BOOLEAN :
    get_epic_deals_today(email, deals, send_ok)

DealsNowNext ==
  \/ SteamDealsToday
  \/ SourceChanges
  \/ EpicDealsToday
  \/ EpicSubscribe({0})
  \/ EpicDigest(DbOk, {{}})
  \/ NextDay

DealsNowSpec == DealsNowInit /\ [][DealsNowNext]_vars

\* The scheduled jobs and the deals subscriptions, with the scheduler running:
\* run_scheduler (Steam) runs the price check, its only job about
\* subscribers' alerts (the cache refresh reads no table); start_scheduler
\* (Epic) runs send_daily_epic_deals day after day.  The loops call
\* schedule.run_pending() every minute, so a job that is due is run; a run
\* of the digest that finds deals, whose sends succeed and whose statements
\* do not raise comes again and again.
DigestLiveInit == Init /\ platform \in {"steam", "digest"}

GoodDigestRun == send_daily_epic_deals(TRUE, Emails, TRUE, {})

DigestLiveNext ==
  \/ SteamRegister
  \/ SteamSubscribe
  \/ SteamStart(DbOk)
  \/ SteamStep(DbOk)
  \/ SweepEnd
  \/ EpicSubscribe({0})
  \/ EpicDigest(DbOk, {{}})
  \/ NextDay

DigestLiveSpec ==
  /\ DigestLiveInit
  /\ [][DigestLiveNext]_vars
  /\ WF_vars(SteamStart(DbOk))
  /\ WF_vars(SteamStep(DbOk))
  /\ WF_vars(SweepEnd)
  /\ WF_vars(GoodDigestRun)

\* The sweeps of the two seeded alerts with the scheduler running and no
\* statement raising: the loop of run_scheduler / start_scheduler calls
\* schedule.run_pending() every minute, so the next sweep starts when it is
\* due, and a sweep that started goes through its list to the end.
SweepLiveNext ==
  \/ SteamStart(DbOk)
  \/ SteamStep(DbOk)
  \/ EpicStart(DbOk)
  \/ EpicStep(DbOk)
  \/ SweepEnd

SweepLiveSpec ==
  /\ SweepInit
  /\ [][SweepLiveNext]_vars
  /\ WF_vars(SteamStart(DbOk))
  /\ WF_vars(SteamStep(DbOk))
  /\ WF_vars(EpicStart(DbOk))
  /\ WF_vars(EpicStep(DbOk))
  /\ WF_vars(SweepEnd)

\* ------------------------------------------------------------ properties
\* The row of the running sweep that the step just taken was about.
StepRow == CHOOSE r \in sweep_alerts : r.id = last'.id

\* C1: while no set-up call re-arms an alert, sweeps send at most one
\* successful notification for it, whatever prices the store answers; the
\* alert that was notified is in its triggered state (Steam: inactive with
\* triggered_at set; Epic: alert_sent), which no later sweep selects.
AtMostOnceNotification ==
  /\ \A id \in DOMAIN notified : notified[id] <= 1
  /\ \A a \in price_alerts :
       Count(notified, a.id) = 1 => ~a.is_active /\ a.triggered_at # "null"
  /\ \A a \in epic_price_alerts : Count(notified, a.id) = 1 => a.alert_sent

\* A sweep has started after an alert was notified, and left that alert out.
NotifiedOnceThenSwept ==
  /\ last.op = "sweep_start" /\ last.res = "ok"
  /\ \E id \in DOMAIN notified :
       notified[id] = 1 /\ \A r \in sweep_alerts : r.id # id

\* C2: when the price has crossed the target and the send fails, the step
\* leaves the alert as it was (active, not triggered, not sent, same target);
\* every sweep selects every alert that is active and not sent; and a step
\* that sees a price at or under the target of a selected alert attempts the
\* send.  Together: the failed alert is selected and tried again next sweep.
FailedSendRetriedNextSweep ==
  [][ /\ (last'.op = "sweep_step" /\ last'.attempted /\ ~last'.sent) =>
           /\ price_alerts' = price_alerts
           /\ \A a \in epic_price_alerts :
                \E b \in epic_price_alerts' :
                  /\ b.id = a.id /\ b.target_price = a.target_price
                  /\ b.is_active = a.is_active /\ b.alert_sent = a.alert_sent
      /\ (last'.op = "sweep_start" /\ last'.res = "ok") =>
           /\ \A a \in price_alerts :
                a.is_active =>
                  \E r \in sweep_alerts' : r.id = a.id /\ r.target_price = a.target_price
           /\ \A a \in epic_price_alerts :
                (a.is_active /\ ~a.alert_sent) =>
                  \E r \in sweep_alerts' : r.id = a.id /\ r.target_price = a.target_price
      /\ (/\ last'.op = "sweep_step"
          /\ last'.answer.priced
          /\ last'.answer.price <= StepRow.target_price
          /\ platform = "steam" => StepRow.alert_type = "below_target") =>
           last'.attempted
    ]_vars

\* A send was attempted and failed, and the alert is still active and unsent.
SendFailedAlertStillActive ==
  /\ last.op = "sweep_step" /\ last.attempted /\ ~last.sent
  /\ \/ \E a \in price_alerts : a.id = last.id /\ a.is_active /\ a.triggered_at = "null"
     \/ \E a \in epic_price_alerts : a.id = last.id /\ a.is_active /\ ~a.alert_sent

\* C3: no two alert rows share (user, game, alert_type) (on Epic: (user,
\* game)); and right after a set-up call that reports success, the row of its
\* key carries the target of the call, is active, and is neither triggered
\* nor sent, whatever the row was before.
OneRowPerKeyLatestSetupWins ==
  /\ \A a, b \in price_alerts :
       (a.user_id = b.user_id /\ a.app_id = b.app_id /\ a.alert_type = b.alert_type) => a = b
  /\ \A a, b \in epic_price_alerts : (a.user_id = b.user_id /\ a.game = b.game) => a = b
  /\ (platform = "steam" /\ last.op = "setup" /\ last.res = "created") =>
       \E u \in steam_users, a \in price_alerts :
         /\ u.email = last.email /\ a.user_id = u.id /\ a.app_id = last.row
         /\ a.alert_type = "below_target" /\ a.target_price = last.target
         /\ a.is_active /\ a.triggered_at = "null"
  /\ (platform = "epic" /\ last.op = "setup" /\ last.res = "created") =>
       \E u \in epic_games_users, a \in epic_price_alerts :
         /\ u.email = last.email /\ a.user_id = u.id /\ a.game = last.row
         /\ a.target_price = last.target /\ a.is_active /\ ~a.alert_sent

\* A set-up call has re-armed a row that was triggered.
SetupRearmedTriggeredAlert ==
  last.op = "setup" /\ last.res = "created" /\ last.before = "triggered"

SendAttemptedIffConditionHolds ==
  [][ last'.op = "sweep_step" =>
        (last'.attempted <=>
           /\ last'.answer.found /\ last'.answer.priced
           /\ IF platform = "steam"
              THEN \/ /\ StepRow.alert_type = "below_target"
                      /\ last'.answer.price <= StepRow.target_price
                   \/ /\ StepRow.alert_type = "below_current"
                      /\ last'.answer.price < StepRow.current_price
              ELSE last'.answer.price <= StepRow.target_price)
    ]_vars

\* A send was attempted for a below_current alert.
BelowCurrentSendAttempted ==
  /\ last.op = "sweep_step" /\ last.attempted
  /\ \E a \in price_alerts : a.id = last.id /\ a.alert_type = "below_current"

\* C6: a set-up call whose email is empty or has no "@", or whose target is
\* not positive, reports a validation error and writes no user, game or alert
\* row, on the Steam tool and on the Epic tool.
InvalidSetupRejectedWithoutWrites ==
  [][ (/\ last'.op = "setup"
       /\ \/ last'.email = <<>>
          \/ \A i \in DOMAIN last'.email : last'.email[i] # "@"
          \/ last'.target <= 0) =>
        (last'.res = "invalid" /\ UNCHANGED tables)
    ]_vars

\* C7: a step whose look-up reports not found changes no row (the alert and
\* the stored price of its game included), attempts no send, and leaves the
\* sweep running with the other fetched alerts still to visit.
NotFoundStepChangesNothing ==
  [][ (last'.op = "sweep_step" /\ ~last'.answer.found) =>
        /\ UNCHANGED tables
        /\ ~last'.attempted
        /\ sweep_pc' = "running"
        /\ sweep_alerts' = sweep_alerts \ {StepRow}
    ]_vars

\* A look-up reported not found in a sweep that has another alert to visit.
NotFoundStepSweepGoesOn ==
  /\ last.op = "sweep_step" /\ ~last.answer.found
  /\ sweep_pc = "running" /\ sweep_alerts # {}

\* C8: a set-up call in which a price look-up reports not found, whichever
\* look-up of the call it is, reports not found and changes no row.
NotFoundSetupChangesNothing ==
  [][ (/\ last'.op = "setup"
       /\ \E i \in DOMAIN last'.lookups : ~last'.lookups[i]) =>
        (last'.res = "notfound" /\ UNCHANGED tables)
    ]_vars

\* C9: a set-up call in which a database statement raised reports an error;
\* a set-up call that reports success has left the active alert row of its
\* key with its target in the table.
SetupSuccessMeansAlertWritten ==
  [][ last'.op = "setup" =>
        /\ faults' > faults => last'.res = "error"
        /\ (platform = "steam" /\ last'.res = "created") =>
             \E u \in steam_users', a \in price_alerts' :
               /\ u.email = last'.email /\ a.user_id = u.id /\ a.app_id = last'.row
               /\ a.target_price = last'.target /\ a.is_active
        /\ (platform = "epic" /\ last'.res = "created") =>
             \E u \in epic_games_users', a \in epic_price_alerts' :
               /\ u.email = last'.email /\ a.user_id = u.id /\ a.game = last'.row
               /\ a.target_price = last'.target /\ a.is_active
    ]_vars

\* The alert upsert of a Steam set-up call raised, after the user and game
\* rows were written, and the call reported an error.
SetupWriteFailedReportedError ==
  /\ platform = "steam" /\ last.op = "setup" /\ last.res = "error" /\ faults > 0
  /\ steam_games # {}
  /\ \A u \in steam_users, a \in price_alerts :
       (u.email = last.email /\ a.user_id = u.id /\ a.alert_type = "below_target") =>
         a.target_price # last.target

\* C10: a promotion (namespace, offer id) is the subject of successful sends
\* in at most one run of the free-games check, and a run sends nothing for a
\* promotion whose row was marked sent before the run.
FreeGameNotifiedInOneRunOnly ==
  /\ [](\A p \in DOMAIN promo_runs : promo_runs[p] <= 1)
  /\ [][ last'.op = "free_check" =>
           \A x \in last'.sends :
             ~\E r \in epic_free_games_alerts : r.game = x[1] /\ r.alert_sent
       ]_vars

\* A run whose list held a promotion notified in an earlier run sent nothing
\* for it, with a subscriber on the list.
SecondRunSendsNothing ==
  /\ last.op = "free_check" /\ last.res = "ok"
  /\ \E r \in epic_subscriptions : r.is_active
  /\ \E p \in last.row :
       Count(promo_runs, p) = 1 /\ \A x \in last.sends : x[1] # p

\* C11: a run of the daily digest attempts no send to a subscriber whose
\* last_sent is today, however often it runs that day; a run that has deals
\* attempts a send to every active subscriber whose last_sent is null or
\* before today; and a subscriber to whom the send succeeded has last_sent =
\* today after the run.
DigestSkipsSentToday ==
  [][ last'.op = "digest" =>
        /\ \A r \in epic_subscriptions : r.last_sent = today => r.email \notin last'.row
        /\ last'.res # "no_deals" =>
             \A r \in epic_subscriptions :
               (r.is_active /\ (r.last_sent = 0 \/ r.last_sent < today)) =>
                 r.email \in last'.row
        /\ \A r \in epic_subscriptions' : r.email \in last'.sends => r.last_sent = today
    ]_vars

\* A second run on a day after the first skipped the subscriber who had
\* received the digest of that day.
DigestSecondRunSameDaySkips ==
  /\ last.op = "digest" /\ last.res = "ok" /\ today > 1
  /\ \E r \in epic_subscriptions :
       r.is_active /\ r.last_sent = today /\ r.email \notin last.row /\ r.email \notin last.sends

\* C12: a refresh (fetch_and_cache_deals) never returns and never caches more
\* than the target size of 10 deals, whatever the candidates are and however
\* the popular, old, huge-discount and highest-discount buckets overlap.
RefreshNeverExceedsTargetSize ==
  [][ last'.op = "refresh" =>
        /\ Len(last'.row) <= TargetSize
        /\ Len(cache_file'.deals) <= TargetSize
        /\ Len(deals_cache'.deals) <= TargetSize ]_vars

\* A refresh that found more than ten candidates cached exactly ten of them.
RefreshFilledTargetSize ==
  /\ last.op = "refresh"
  /\ Len(last.lookups) > TargetSize
  /\ Len(last.row) = TargetSize
  /\ cache_file.deals = last.row

\* C13: when the live source is unreachable, get_cached_deals returns the
\* cache only if it is within the staleness ceiling of six hours, otherwise
\* the emergency result, otherwise an empty result: a cached set that is older
\* than the ceiling is never returned.
StaleCacheNeverReturned ==
  (last.op = "get_deals" /\ ~source.up) =>
     /\ last.res = "cache" => cache_is_fresh(deals_cache, clock)
     /\ last.res # "cache" => last.row = EmergencyDeals(source)

\* C14: an exception raised by a run of a scheduled job (price check,
\* free-games check, daily digest) never stops the scheduler loop: the loop
\* is still running after the run that raised, so later runs stay possible.
JobExceptionKeepsSchedulerAlive ==
  [][ (/\ last'.op \in {"sweep_start", "sweep_step", "free_check", "digest"}
       /\ last'.res \in {"error", "db_error"}) => scheduler_alive' ]_vars

\* C15: two instances of one job are never executing at the same time: here
\* the cache-refresh job, a run of which finishes before another run of it
\* starts.
NoTwoRunsOfOneJob == Cardinality(refreshing) <= 1

\* C16: within one sweep a failure while processing one alert (look-up, write
\* or send) does not abort the sweep: after every step the sweep is still
\* running and every other alert it selected is still to be processed.
SweepStepNeverAborts ==
  [][ last'.op = "sweep_step" =>
        /\ sweep_pc' = "running"
        /\ sweep_alerts' = sweep_alerts \ {StepRow} ]_vars

\* C17: TRIGGERED is terminal until the user acts: a triggered alert (Steam:
\* is_active FALSE with triggered_at set; Epic: alert_sent TRUE) is changed by
\* no operation but a set-up call for it, and a sweep that starts selects no
\* triggered alert.
TriggeredIsTerminal ==
  [][ /\ \A a \in price_alerts :
           (~a.is_active /\ a.triggered_at # "null") =>
              \/ a \in price_alerts'
              \/ last'.op = "setup" /\ last'.res = "created" /\ last'.id = a.id
      /\ \A a \in epic_price_alerts :
           a.alert_sent =>
              \/ a \in epic_price_alerts'
              \/ last'.op = "setup" /\ last'.res = "created" /\ last'.id = a.id
      /\ (last'.op = "sweep_start" /\ platform = "steam") =>
           \A r \in sweep_alerts' :
             \E a \in price_alerts : a.id = r.id /\ a.is_active /\ a.triggered_at = "null"
      /\ (last'.op = "sweep_start" /\ platform = "epic") =>
           \A r \in sweep_alerts' :
             \E a \in epic_price_alerts : a.id = r.id /\ ~a.alert_sent ]_vars

\* A sweep has started while a triggered alert and an active alert exist: it
\* selected the active one only.
SweepSkippedTriggeredAlert ==
  /\ last.op = "sweep_start" /\ last.res = "ok" /\ platform = "steam"
  /\ sweep_alerts # {}
  /\ \E a \in price_alerts :
       /\ ~a.is_active /\ a.triggered_at # "null"
       /\ \A r \in sweep_alerts : r.id # a.id

\* C18: remove_price_alert takes the user's alerts for the game to absent:
\* afterwards they are inactive, their rows are still there, list_user_alerts
\* shows none of them and a sweep that starts later selects none of them;
\* when the user had no active alert for the game the call reports that none
\* was found and changes nothing.
RemoveDeactivatesAndKeepsRow ==
  [][ /\ last'.op = "remove" =>
           LET user_id == SteamUserId(steam_users, last'.email)
               mine(a) == a.user_id = user_id /\ a.app_id = last'.row
           IN /\ \A a \in price_alerts' : mine(a) => ~a.is_active
              /\ {a.id : a \in price_alerts'} = {a.id : a \in price_alerts}
              /\ \A a \in price_alerts : ~(mine(a) /\ a.is_active) => a \in price_alerts'
              /\ \A r \in list_user_alerts(price_alerts', steam_games', steam_users',
                                            last'.email) : r.app_id # last'.row
              /\ (last'.res = "none_found") =
                   ~(\E a \in price_alerts : mine(a) /\ a.is_active)
              /\ last'.res = "none_found" => price_alerts' = price_alerts
              /\ steam_users' = steam_users /\ steam_games' = steam_games
      /\ (last'.op = "sweep_start" /\ platform = "steam") =>
           \A a \in price_alerts :
             ~a.is_active => \A r \in sweep_alerts' : r.id # a.id ]_vars

\* An active alert was removed: its row is there, inactive and never triggered.
RemovedAlertKeptInactive ==
  /\ last.op = "remove" /\ last.res = "removed"
  /\ \E a \in price_alerts :
       /\ a.user_id = SteamUserId(steam_users, last.email) /\ a.app_id = last.row
       /\ ~a.is_active /\ a.triggered_at = "null"

\* C19: a User row is auto-created when needed: after a successful set-up
\* call, and after a subscribe call with a valid email and the database
\* there, exactly one User row of the email exists and the alert or the
\* subscription belongs to it.
UserAutoCreatedOnFirstUse ==
  [][ /\ (last'.op = "setup" /\ last'.res = "created" /\ platform = "steam") =>
           /\ Cardinality({u \in steam_users' : u.email = last'.email}) = 1
           /\ \E a \in price_alerts' :
                a.id = last'.id /\ a.user_id = SteamUserId(steam_users', last'.email)
      /\ (last'.op = "setup" /\ last'.res = "created" /\ platform = "epic") =>
           /\ Cardinality({u \in epic_games_users' : u.email = last'.email}) = 1
           /\ \E a \in epic_price_alerts' :
                a.id = last'.id /\ a.user_id = EpicUserId(epic_games_users', last'.email)
      /\ (last'.op = "subscribe" /\ last'.res \notin {"invalid", "no_database"}
             /\ platform = "steam") =>
           /\ Cardinality({u \in steam_users' : u.email = last'.email}) = 1
           /\ \E r \in daily_deals_subscriptions' :
                r.user_id = SteamUserId(steam_users', last'.email) /\ r.is_active
      /\ (last'.op = "subscribe" /\ last'.res = "subscribed" /\ platform # "steam") =>
           /\ Cardinality({u \in epic_games_users' : u.email = last'.email}) = 1
           /\ \E r \in epic_subscriptions' :
                /\ r.user_id = EpicUserId(epic_games_users', last'.email)
                /\ r.email = last'.email /\ r.is_active ]_vars

\* C20: persisted records are never hard-deleted: a User, PriceAlert or
\* DealsSubscription row that exists is still there after every operation,
\* start-up and database initialization after a restart included.
RowsNeverDeleted ==
  [][ /\ \A u \in steam_users : \E v \in steam_users' : v.id = u.id /\ v.email = u.email
      /\ \A a \in price_alerts : \E b \in price_alerts' : b.id = a.id
      /\ \A r \in daily_deals_subscriptions :
           \E t \in daily_deals_subscriptions' : t.user_id = r.user_id
      /\ \A u \in epic_games_users :
           \E v \in epic_games_users' : v.id = u.id /\ v.email = u.email
      /\ \A a \in epic_price_alerts : \E b \in epic_price_alerts' : b.id = a.id
      /\ \A r \in epic_subscriptions :
           \E t \in epic_subscriptions' : t.user_id = r.user_id /\ t.email = r.email ]_vars

\* C21: the deals cache is replaced atomically: what get_cached_deals finds
\* in deals_cache while the scheduler thread refreshes is a complete saved
\* set, the previous one or the new one, its deals with its own last_updated,
\* never the deals of one set with the last_updated of another.
CacheReplacedAtomically ==
  (last.op = "get_deals" /\ last.res = "cache") =>
     (deals_cache = origin.stamp \/ deals_cache = origin.deals)

\* C30: a refresh made while the price source is totally unavailable does
\* not destroy the previous cache: the set cached before, in memory and in
\* the file, is still there after the refresh for get_cached_deals to fall
\* back to, it is not overwritten by an empty set.  (Stated for the refreshes
\* of the server loop, whose save is one step.)
RefreshWithoutSourceKeepsCache ==
  [][ (last'.op = "refresh" /\ last'.res # "scheduler" /\ ~source.up) =>
        /\ cache_file'.deals = cache_file.deals
        /\ deals_cache'.deals = deals_cache.deals ]_vars

\* The connection of "async with pool.acquire() as conn" in check_price_alerts
\* and check_epic_price_alerts: acquired before the SELECT of the sweep and
\* released when the block is left, after the last alert or by an exception.
ConnectionHeld == platform \in {"steam", "epic"} /\ sweep_pc = "running"

\* C22: no operation holds a pooled database connection while it waits on an
\* external network call: the step of a sweep, which asks the price source
\* for the alert's price and may call the sender, starts with no connection
\* held.
NoConnectionHeldAcrossNetworkCall ==
  [][ last'.op = "sweep_step" => ~ConnectionHeld ]_vars

\* C23: a run of the free-games check that goes through its list marks every
\* promotion of the list as sent, whether or not the sends of its
\* notification pass succeeded, and it sends only for promotions that were
\* not marked before the run: a subscriber whose send failed is not tried
\* again for that promotion.
FreeGameMarkedWhateverTheSends ==
  [][ (last'.op = "free_check" /\ last'.res = "ok") =>
        /\ \A p \in last'.row : ExistingFreeAlert(epic_free_games_alerts', p)
        /\ \A x \in last'.sends : ~ExistingFreeAlert(epic_free_games_alerts, x[1]) ]_vars

\* A run with an active subscriber left a promotion marked as sent for which
\* no send ever succeeded.
FailedSendsStillMarked ==
  /\ last.op = "free_check" /\ last.res = "ok"
  /\ \E r \in epic_subscriptions : r.is_active
  /\ \E p \in last.row :
       Count(promo_runs, p) = 0 /\ ExistingFreeAlert(epic_free_games_alerts, p)

\* The e-mail addresses of the active deals subscribers to whom no digest
\* was sent today.  daily_deals_subscriptions (Steam) has no last_sent column.
DueDealsSubscribers ==
  IF platform = "steam"
  THEN {u.email : u \in {u \in steam_users :
                           \E r \in daily_deals_subscriptions :
                              r.user_id = u.id /\ r.is_active}}
  ELSE {r.email : r \in {r \in epic_subscriptions :
                           r.is_active /\ (r.last_sent = NoDate \/ r.last_sent < today)}}

\* C24: the scheduler drives the periodic jobs, the daily deals digest among
\* them: while it keeps running and the sender succeeds, every active deals
\* subscriber whose last_sent is not today is eventually sent a digest.
DealsSubscriberEventuallySent ==
  \A e \in Emails :
    (e \in DueDealsSubscribers) ~> (last.op = "digest" /\ e \in last.sends)

\* The price on record after a step of a sweep for what the step was about:
\* steam_games.current_price of the alert's game, epic_price_alerts.current_price
\* of the alert.
StepStoredPrice ==
  IF platform = "steam"
  THEN {g.current_price : g \in {g \in steam_games' : g.app_id = StepRow.app_id}}
  ELSE {a.current_price : a \in {a \in epic_price_alerts' : a.id = last'.id}}

\* The trigger condition of the alert of the step, for the price answered.
StepCondition ==
  IF platform = "steam" /\ StepRow.alert_type = "below_current"
  THEN last'.answer.price < StepRow.current_price
  ELSE last'.answer.price <= StepRow.target_price

\* C25: whenever the price source returns a price in a step of a sweep, the
\* price on record is that price after the step, whether or not the alert
\* triggered and whether or not the send succeeded; a send is attempted only
\* with the price stored.
PriceStoredWhateverTheOutcome ==
  [][ last'.op = "sweep_step" =>
        /\ (last'.answer.found /\ last'.answer.priced) => StepStoredPrice = {last'.answer.price}
        /\ last'.attempted => StepStoredPrice = {last'.answer.price} ]_vars

\* A step stored the price it was answered, the send it attempted failed.
PriceStoredSendFailed ==
  /\ last.op = "sweep_step" /\ last.attempted /\ ~last.sent
  /\ IF platform = "steam"
     THEN \E a \in price_alerts, g \in steam_games :
            a.id = last.id /\ g.app_id = a.app_id /\ g.current_price = last.answer.price
     ELSE \E a \in epic_price_alerts : a.id = last.id /\ a.current_price = last.answer.price

\* C26: a step whose look-up found a price for which the trigger condition
\* does not hold changes nothing but the price on record: the alert keeps its
\* target_price, alert_type, is_active and triggered_at (alert_sent on Epic),
\* no other row changes and no send is attempted.
NonTriggerStepChangesOnlyPrice ==
  [][ (/\ last'.op = "sweep_step"
       /\ last'.answer.found /\ last'.answer.priced
       /\ ~StepCondition) =>
        /\ ~last'.attempted /\ ~last'.sent
        /\ notified' = notified
        /\ price_alerts' = price_alerts
        /\ steam_users' = steam_users /\ epic_games_users' = epic_games_users
        /\ {[g EXCEPT !.current_price = 0] : g \in steam_games'}
             = {[g EXCEPT !.current_price = 0] : g \in steam_games}
        /\ {[a EXCEPT !.current_price = 0] : a \in epic_price_alerts'}
             = {[a EXCEPT !.current_price = 0] : a \in epic_price_alerts}
        /\ \A g \in steam_games' : g.app_id # StepRow.app_id => g \in steam_games
        /\ \A a \in epic_price_alerts' : a.id # last'.id => a \in epic_price_alerts ]_vars

\* A step found a price over the target of a below_target alert, stored it
\* and sent nothing; the alert is still active.
PriceOverTargetStored ==
  /\ last.op = "sweep_step" /\ last.answer.priced /\ ~last.attempted
  /\ IF platform = "steam"
     THEN \E a \in price_alerts, g \in steam_games :
            /\ a.id = last.id /\ a.alert_type = "below_target" /\ a.is_active
            /\ last.answer.price > a.target_price
            /\ g.app_id = a.app_id /\ g.current_price = last.answer.price
     ELSE \E a \in epic_price_alerts :
            /\ a.id = last.id /\ a.is_active /\ ~a.alert_sent
            /\ last.answer.price > a.target_price
            /\ a.current_price = last.answer.price

\* C27: within one sweep an alert of the selection is visited once: the step
\* about it takes it off the list of the sweep, the sweep ends only with the
\* list empty, and a step makes one look-up and at most one send, for its own
\* alert; a send that failed is not repeated before the next sweep.
AlertVisitedOncePerSweep ==
  [][ /\ last'.op = "sweep_step" =>
           /\ \E r \in sweep_alerts : r.id = last'.id
           /\ \A r \in sweep_alerts' : r.id # last'.id
           /\ sweep_alerts' \subseteq sweep_alerts
           /\ \A i \in DOMAIN notified' :
                Count(notified', i) <= Count(notified, i) + (IF i = last'.id THEN 1 ELSE 0)
           /\ last'.sent => last'.attempted
      /\ last'.op = "sweep_end" => sweep_alerts = {}
      /\ last'.op = "sweep_start" => sweep_pc = "idle" ]_vars

\* The send for an alert failed and the sweep went on to the other alert.
FailedSendSweepWentOn ==
  /\ last.op = "sweep_step" /\ last.attempted /\ ~last.sent /\ last.res = "ok"
  /\ sweep_pc = "running"
  /\ \E r \in sweep_alerts : r.id # last.id

TargetAlertIds ==
  IF platform = "steam"
  THEN {a.id : a \in {a \in price_alerts : a.alert_type = "below_target"}}
  ELSE {a.id : a \in epic_price_alerts}

AlertTarget(id) ==
  IF platform = "steam"
  THEN (CHOOSE a \in price_alerts : a.id = id).target_price
  ELSE (CHOOSE a \in epic_price_alerts : a.id = id).target_price

\* The last step was not about alert id, or the price source answered it a
\* price at or under the target of the alert.
PriceAtOrUnderTarget(id) ==
  (last.op = "sweep_step" /\ last.id = id) =>
     (last.answer.found /\ last.answer.priced /\ last.answer.price <= AlertTarget(id))

\* The last step was not about alert id, or the send it attempted succeeded.
SendSucceeds(id) ==
  (last.op = "sweep_step" /\ last.id = id /\ last.attempted) => last.sent

\* Alert id is triggered (Steam: inactive with triggered_at set; Epic:
\* alert_sent) and exactly one notification was sent for it.
TriggeredNotifiedOnce(id) ==
  /\ Count(notified, id) = 1
  /\ IF platform = "steam"
     THEN \E a \in price_alerts : a.id = id /\ ~a.is_active /\ a.triggered_at # "null"
     ELSE \E a \in epic_price_alerts : a.id = id /\ a.alert_sent

\* C29: for an active alert of an active user, if from some point on the
\* price source always answers a price at or under the target and the sends
\* succeed, and the scheduler keeps running its sweeps, then the alert is
\* eventually triggered, and stays so, with exactly one notification sent.
ActiveAlertEventuallyTriggered ==
  \A id \in 1..2 :
    (id \in TargetAlertIds) =>
      ((<>[]PriceAtOrUnderTarget(id) /\ <>[]SendSucceeds(id)) =>
         <>[]TriggeredNotifiedOnce(id))

\* An alert was triggered by a step answered a price at or under its target,
\* after a sweep in which it was not.
TriggeredAtOrUnderTarget ==
  /\ last.op = "sweep_step" /\ last.sent
  /\ last.id \in TargetAlertIds
  /\ last.answer.price <= AlertTarget(last.id)
  /\ TriggeredNotifiedOnce(last.id)

\* The answers of the store for a game that make a deal.
DealAnswers(src, app_id) ==
  {a \in {(src.deals \o src.featured)[i] : i \in DOMAIN (src.deals \o src.featured)} :
     a.app_id = app_id /\ a.priced /\ a.discount >= MinDiscount}

\* C31: a refresh deduplicates by game: the curated set holds no two deals
\* with the same app_id, and the deal it holds for a game has the highest
\* discount among the deals found for that game.
RefreshKeepsOneDealPerGame ==
  [][ last'.op = "refresh" =>
        /\ \A i, j \in DOMAIN last'.row :
             last'.row[i].app_id = last'.row[j].app_id => i = j
        /\ \A i \in DOMAIN last'.row :
             /\ \E a \in DealAnswers(source, last'.row[i].app_id) :
                  a.discount = last'.row[i].discount
             /\ \A a \in DealAnswers(source, last'.row[i].app_id) :
                  a.discount <= last'.row[i].discount ]_vars

\* A refresh found a game twice, with two discounts, and kept one deal for it.
RefreshFoundGameTwice ==
  /\ last.op = "refresh"
  /\ \E i \in DOMAIN last.row :
       Cardinality(DealAnswers(source, last.row[i].app_id)) > 1

\* C32: every deal a refresh or the emergency fallback returns has a discount
\* of at least 10 percent and comes from an answer of the store with a price:
\* a game answered with a lower discount, or without a price, is not in the
\* result.
ReturnedDealsReachMinDiscount ==
  [][ (last'.op = "refresh" \/ (last'.op = "get_deals" /\ last'.res = "emergency")) =>
        \A i \in DOMAIN last'.row :
          /\ last'.row[i].discount >= MinDiscount
          /\ DealAnswers(source, last'.row[i].app_id) # {} ]_vars

\* The emergency fallback returned deals while the store answered one game
\* with a discount under 10 percent and one without a price.
EmergencyLeftOutLowDiscount ==
  /\ last.op = "get_deals" /\ last.res = "emergency" /\ last.row # <<>>
  /\ \E i, j \in DOMAIN source.deals :
       /\ source.deals[i].priced /\ source.deals[i].discount < MinDiscount
       /\ ~source.deals[j].priced
       /\ \A k \in DOMAIN last.row :
            last.row[k].app_id \notin {source.deals[i].app_id, source.deals[j].app_id}

\* The deals the three quotas of the mix pick from all_unique_deals: the first
\* three of the popular games, the first two of the old games, the first two
\* with a discount of 50 percent or more.
IsPopularDeal(deal) == deal.app_id \in PopularTop20

IsOldDeal(deal) == deal.app_id < OldAppIdLimit

IsHugeDeal(deal) == deal.discount >= HugeDiscount

SeqSet(s) == {s[i] : i \in DOMAIN s}

QuotaPicks(all_unique_deals) ==
  SeqSet(Take(SelectSeq(all_unique_deals, IsPopularDeal), PopularQuota))
    \cup SeqSet(Take(SelectSeq(all_unique_deals, IsOldDeal), OldQuota))
    \cup SeqSet(Take(SelectSeq(all_unique_deals, IsHugeDeal), HugeQuota))

\* C33: the curated set of a refresh has min(10, number of distinct
\* candidates) deals, all of them candidates: ten when ten or more qualify,
\* every candidate when fewer do; it holds the picks of the three quotas, and
\* the deals that top it up have the highest discounts of the rest (no
\* candidate left out has a higher discount than a deal that tops up).
CuratedSetSizeAndTopUp ==
  [][ last'.op = "refresh" =>
        LET candidates == last'.lookups
            curated == SeqSet(last'.row)
            picks == QuotaPicks(candidates)
        IN /\ Len(last'.row) = (IF Len(candidates) < TargetSize
                                THEN Len(candidates) ELSE TargetSize)
           /\ Cardinality(curated) = Len(last'.row)
           /\ curated \subseteq SeqSet(candidates)
           /\ picks \subseteq curated
           /\ \A t \in curated \ picks :
                \A d \in SeqSet(candidates) \ curated : d.discount <= t.discount ]_vars

\* A refresh found more than ten candidates: the curated set has ten deals,
\* some of them topping up the quota picks, and a candidate was left out.
CuratedSetToppedUpToTen ==
  /\ last.op = "refresh"
  /\ Len(last.lookups) > TargetSize /\ Len(last.row) = TargetSize
  /\ SeqSet(last.row) \ QuotaPicks(last.lookups) # {}
  /\ SeqSet(last.lookups) \ SeqSet(last.row) # {}

\* The texts of the deals tools that report a failure.
FailureReports == {"invalid", "unavailable", "send_failed"}

\* C34: an empty deal list is treated as unavailable: send_top_deals_today
\* and get_epic_deals_today send no email when the list they obtain is empty
\* and report a failure, not a success; a run of the daily digest that
\* obtains no deals sends nothing and leaves every last_sent as it was.
EmptyDealListIsUnavailable ==
  [][ /\ (last'.op = "deals_today" /\ last'.row = <<>>) =>
           /\ ~last'.attempted /\ ~last'.sent
           /\ last'.res \in FailureReports
      /\ (last'.op = "digest" /\ last'.res = "no_deals") =>
           /\ last'.sends = {} /\ last'.row = {}
           /\ epic_subscriptions' = epic_subscriptions ]_vars

\* C35: a run of the daily digest changes the last_sent of a subscription
\* only when the send to that subscriber succeeded; a subscriber whose send
\* failed keeps its last_sent and is selected again by the next run; and the
\* failure does not end the run: every subscriber the run selected was tried.
LastSentOnlyAfterSuccessfulSend ==
  [][ last'.op = "digest" =>
        /\ \A r \in epic_subscriptions :
             \E q \in epic_subscriptions' :
               /\ q.email = r.email /\ q.user_id = r.user_id
               /\ q.last_sent # r.last_sent => r.email \in last'.sends
               /\ r.email \in last'.row \ last'.sends =>
                    /\ q.last_sent = r.last_sent
                    /\ r.email \in DigestSelect(epic_subscriptions', today')
        /\ last'.res # "no_deals" => last'.row = DigestSelect(epic_subscriptions, today)
        /\ last'.sends \subseteq last'.row ]_vars

\* A run of the digest failed to send to one subscriber and sent to another.
DigestSendFailedForOne ==
  /\ last.op = "digest"
  /\ last.sends # {} /\ last.row \ last.sends # {}
  /\ \E r \in epic_subscriptions : r.email \in last.row \ last.sends /\ r.last_sent # today
  /\ \E r \in epic_subscriptions : r.email \in last.sends /\ r.last_sent = today

\* C36: after every call of subscribe_digest each user has at most one
\* subscription row, on Steam and on Epic; after a call that subscribed, the
\* row of the caller is active; and no call changes the last_sent of a row,
\* so a subscriber who has had the digest of today is not selected again today.
ResubscribeKeepsOneRowAndLastSent ==
  [][ last'.op = "subscribe" =>
        /\ \A r, q \in daily_deals_subscriptions' : r.user_id = q.user_id => r = q
        /\ \A r, q \in epic_subscriptions' : r.user_id = q.user_id => r = q
        /\ (last'.res = "subscribed" /\ platform = "steam") =>
             \E r \in daily_deals_subscriptions' :
               r.user_id = SteamUserId(steam_users', last'.email) /\ r.is_active
        /\ (last'.res = "subscribed" /\ platform # "steam") =>
             \E r \in epic_subscriptions' :
               /\ r.user_id = EpicUserId(epic_games_users', last'.email)
               /\ r.email = last'.email /\ r.is_active
        /\ \A r \in epic_subscriptions :
             /\ \E q \in epic_subscriptions' :
                  q.user_id = r.user_id /\ q.email = r.email /\ q.last_sent = r.last_sent
             /\ r.last_sent = today =>
                  r.email \notin DigestSelect(epic_subscriptions', today') ]_vars

\* A subscriber who had the digest of today subscribed again and the row
\* still carries today's last_sent.
ResubscribedAfterDigestOfToday ==
  /\ last.op = "subscribe" /\ last.res = "subscribed" /\ platform = "digest"
  /\ \E r \in epic_subscriptions :
       r.email = last.email /\ r.is_active /\ r.last_sent = today
  /\ Cardinality(epic_subscriptions) > 1

\* C37: a step of a sweep notifies, and takes an alert out of the active
\* ones, only on the state the alert has when the step runs: the alert is
\* still active (not removed, on Epic not yet sent) and the price answered
\* meets the trigger condition against the target the row carries now, also
\* when remove_alert or setup_alert committed after the sweep read its list.
SweepActsOnAlertStateOfTheMoment ==
  [][ last'.op = "sweep_step" =>
        /\ (last'.attempted /\ platform = "steam") =>
             \E a \in price_alerts :
               /\ a.id = last'.id /\ a.is_active
               /\ ShouldTrigger(a.alert_type, last'.answer.price, a.target_price,
                                StepRow.current_price)
        /\ (last'.attempted /\ platform = "epic") =>
             \E a \in epic_price_alerts :
               /\ a.id = last'.id /\ a.is_active /\ ~a.alert_sent
               /\ last'.answer.price <= a.target_price
        /\ \A a \in price_alerts :
             (a.is_active /\ \E q \in price_alerts' : q.id = a.id /\ ~q.is_active) =>
               ShouldTrigger(a.alert_type, last'.answer.price, a.target_price,
                             StepRow.current_price)
        /\ \A a \in epic_price_alerts :
             (~a.alert_sent /\ \E q \in epic_price_alerts' : q.id = a.id /\ q.alert_sent) =>
               a.is_active /\ last'.answer.price <= a.target_price ]_vars

====
